---- MODULE Spec2Model ----
(***************************************************************************)
(* A model of the s8-interpreter engine (src/src/S8Interpreter.js): the    *)
(* state stack and its step dispatcher, exception unwinding, the guest     *)
(* object model (property bags, accessors, array length), the scope chain  *)
(* and the host API (constructor, step, run, appendCode, async callbacks). *)
(*                                                                         *)
(* Objects, scopes and stack frames are JavaScript objects with identity,  *)
(* so each lives in a store indexed by an id: heap, scopes and frames.     *)
(* The state stack is a sequence of frame ids.                             *)
(***************************************************************************)
EXTENDS Integers, Sequences, FiniteSets, TLC

VARIABLES
    phase,        \* progress of the constructor: "new" .. "ready"
    code,         \* the constructor's argument: the user program
    ast,          \* this.ast
    stateStack,   \* this.stateStack: sequence of frame ids, root first
    frames,       \* every State object created so far, by id
    heap,         \* every S8Interpreter.Object created so far, by id
    scopes,       \* every S8Interpreter.Scope created so far, by id
    paused_,      \* this.paused_
    value,        \* this.value
    getterStep_,  \* this.getterStep_
    setterStep_,  \* this.setterStep_
    polyfills_,   \* this.polyfills_: have the polyfill sources been registered
    call,         \* the host API call in progress and the locals of step()
    result,       \* how the last host API call ended
    host          \* the embedding host: its counter, its log, issued callbacks

vars == <<phase, code, ast, stateStack, frames, heap, scopes, paused_, value, getterStep_,
          setterStep_, polyfills_, call, result, host>>

----------------------------------------------------------------------------
(* Bounds of the model.                                                    *)

\* Width in bits of the unsigned integers behind `x >>> 0`; the code's is 32.
LengthBits == 3
\* Number of host operations (calls, callbacks, appendCode) in one behaviour.
MaxHostOps == 3
\* Number of array operations in one behaviour of SpecArray.
MaxArrayOps == 4

----------------------------------------------------------------------------
(* Guest values: S8Interpreter.Value, plus the [object, name] reference     *)
(* pairs that `components` evaluation leaves in state.value.               *)

Undef == [t |-> "undefined"]
Null == [t |-> "null"]
NaN == [t |-> "NaN"]
\* A number that is not an integer (1.5): only its non-integrality matters.
Frac == [t |-> "fraction"]
Num(n) == [t |-> "number", v |-> n]
Str(s) == [t |-> "string", v |-> s]
Bool(b) == [t |-> "boolean", v |-> b]
Obj(id) == [t |-> "object", v |-> id]
SCOPE_REFERENCE == [t |-> "SCOPE_REFERENCE"]
VALUE_IN_DESCRIPTOR == [t |-> "VALUE_IN_DESCRIPTOR"]
Ref(base, name) == [t |-> "ref", base |-> base, name |-> name]

IsObj(v) == v.t = "object"
IsRef(v) == v.t = "ref"
IsNumber(v) == v.t \in {"number", "NaN", "fraction"}

\* JavaScript ToBoolean.
Truthy(v) ==
    CASE v.t \in {"undefined", "null", "NaN"} -> FALSE
      [] v.t = "number" -> v.v # 0
      [] v.t = "string" -> v.v # ""
      [] v.t = "boolean" -> v.v
      [] OTHER -> TRUE

\* v is given the name of f's parameter: a local `var`.
Let(v, f(_)) == f(v)

Digit(d) == <<"0", "1", "2", "3", "4", "5", "6", "7", "8", "9">>[d + 1]

RECURSIVE NatStr(_)
NatStr(n) == IF n < 10 THEN Digit(n) ELSE NatStr(n \div 10) \o Digit(n % 10)

\* String(n) for an integer n.
NumStr(n) == IF n < 0 THEN "-" \o NatStr(0 - n) ELSE NatStr(n)

RECURSIVE Pow2(_)
Pow2(w) == IF w = 0 THEN 1 ELSE 2 * Pow2(w - 1)

\* 2^32 in the code.
Modulus == Pow2(LengthBits)

\* x >>> 0 for an integer x.
ToUint32(n) == n % Modulus

\* The integers whose decimal form the model can parse back from a string.
Parsable == (0 - 2) .. (Modulus + 2)

\* Number(s) for a string: the integer it is the canonical form of, else NaN.
ParseInt(s) ==
    Let({n \in Parsable : NumStr(n) = s}, LAMBDA ns :
        IF ns = {} THEN NaN ELSE Num(CHOOSE n \in ns : TRUE))

\* Number(x): an integer, or NaN / Frac.
ToNumber(v) ==
    CASE v.t = "number" -> v
      [] v.t = "fraction" -> Frac
      [] v.t = "null" -> Num(0)
      [] v.t = "boolean" -> Num(IF v.v THEN 1 ELSE 0)
      [] v.t = "string" -> IF v.v = "" THEN Num(0) ELSE ParseInt(v.v)
      [] OTHER -> NaN

NotAnIndex == 0 - 1

\* S8Interpreter.legalArrayLength: the integer, or NotAnIndex for NaN.
legalArrayLength(x) ==
    Let(ToNumber(x), LAMBDA n :
        IF n.t = "number" /\ ToUint32(n.v) = n.v THEN n.v ELSE NotAnIndex)

\* String(x) of a primitive.
PrimStr(v) ==
    CASE v.t = "string" -> v.v
      [] v.t = "number" -> NumStr(v.v)
      [] v.t = "boolean" -> IF v.v THEN "true" ELSE "false"
      [] v.t = "fraction" -> "1.5"
      [] OTHER -> v.t

\* S8Interpreter.legalArrayIndex of a property name: String(n) === String(x)
\* and n is not 2^32 - 1.
legalArrayIndex(k) ==
    Let(ParseInt(k), LAMBDA n :
        IF n.t = "number" /\ n.v >= 0 /\ n.v < Modulus - 1 THEN n.v ELSE NotAnIndex)

----------------------------------------------------------------------------
(* Property bags: obj.properties is a host object created with             *)
(* Object.create(null).  A bag is the sequence of its own properties in    *)
(* the host's enumeration order: integer keys ascending, then the other    *)
(* keys in insertion order.                                                *)

Prop(k, v, w, e, c) == [k |-> k, v |-> v, w |-> w, e |-> e, c |-> c]

EmptyBag == << >>

Keys(bag) == {bag[i].k : i \in 1..Len(bag)}

\* `name in bag`
In(bag, k) == k \in Keys(bag)

At(bag, k) == bag[CHOOSE i \in 1..Len(bag) : bag[i].k = k]

\* bag[k], undefined when absent.
Get(bag, k) == IF In(bag, k) THEN At(bag, k).v ELSE Undef

\* The host orders integer-like keys (0 .. 2^32 - 2) before all others.
HostIndex(k) == legalArrayIndex(k)

Before(i1, i2) == i1 # NotAnIndex /\ (i2 = NotAnIndex \/ i1 < i2)

\* A new own property takes its place in the enumeration order.
Insert(bag, p) ==
    Let(HostIndex(p.k), LAMBDA at :
    Let({i \in 1..Len(bag) : ~Before(at, HostIndex(bag[i].k))}, LAMBDA lower :
    \* entries that stay in front of p: a prefix, as bags are ordered
    Let(Cardinality({i \in lower : \A j \in 1..i : j \in lower}), LAMBDA n :
        SubSeq(bag, 1, n) \o <<p>> \o SubSeq(bag, n + 1, Len(bag)))))

Replace(bag, p) == [i \in 1..Len(bag) |-> IF bag[i].k = p.k THEN p ELSE bag[i]]

Remove(bag, k) == SelectSeq(bag, LAMBDA p : p.k # k)

\* Strict-mode host assignment bag[k] = v: ok is FALSE when the host throws
\* TypeError (the property is read-only).
HostSet(bag, k, v) ==
    IF In(bag, k)
    THEN Let(At(bag, k), LAMBDA cur :
             IF cur.w THEN [ok |-> TRUE, bag |-> Replace(bag, [cur EXCEPT !.v = v])]
             ELSE [ok |-> FALSE, bag |-> bag])
    ELSE [ok |-> TRUE, bag |-> Insert(bag, Prop(k, v, TRUE, TRUE, TRUE))]

\* Strict-mode host `delete bag[k]`: ok is FALSE when the host throws
\* TypeError (the property is not configurable).
HostDelete(bag, k) ==
    IF ~In(bag, k) THEN [ok |-> TRUE, bag |-> bag]
    ELSE IF At(bag, k).c THEN [ok |-> TRUE, bag |-> Remove(bag, k)]
         ELSE [ok |-> FALSE, bag |-> bag]

\* Property descriptors are records holding some of the fields
\* configurable, enumerable, writable, value, get, set.
Has(d, f) == f \in DOMAIN d

NoDescriptor == [none |-> TRUE]

READONLY_DESCRIPTOR == [configurable |-> TRUE, enumerable |-> TRUE, writable |-> FALSE]
NONENUMERABLE_DESCRIPTOR == [configurable |-> TRUE, enumerable |-> FALSE, writable |-> TRUE]
READONLY_NONENUMERABLE_DESCRIPTOR ==
    [configurable |-> TRUE, enumerable |-> FALSE, writable |-> FALSE]
VARIABLE_DESCRIPTOR == [configurable |-> FALSE, enumerable |-> TRUE, writable |-> TRUE]
LENGTH_DESCRIPTOR == [configurable |-> FALSE, enumerable |-> FALSE, writable |-> TRUE]

\* Host Object.defineProperty(bag, k, d) for a data descriptor d (the
\* ECMAScript ValidateAndApplyPropertyDescriptor): ok is FALSE when the
\* host throws TypeError.
HostDefine(bag, k, d) ==
    IF ~In(bag, k)
    THEN [ok |-> TRUE,
          bag |-> Insert(bag, Prop(k,
                     IF Has(d, "value") THEN d.value ELSE Undef,
                     Has(d, "writable") /\ d.writable,
                     Has(d, "enumerable") /\ d.enumerable,
                     Has(d, "configurable") /\ d.configurable))]
    ELSE Let(At(bag, k), LAMBDA cur :
             IF /\ ~cur.c
                /\ \/ Has(d, "configurable") /\ d.configurable
                   \/ Has(d, "enumerable") /\ d.enumerable # cur.e
                   \/ ~cur.w /\ Has(d, "writable") /\ d.writable
                   \/ ~cur.w /\ Has(d, "value") /\ d.value # cur.v
             THEN [ok |-> FALSE, bag |-> bag]
             ELSE [ok |-> TRUE,
                   bag |-> Replace(bag, Prop(k,
                     IF Has(d, "value") THEN d.value ELSE cur.v,
                     IF Has(d, "writable") THEN d.writable ELSE cur.w,
                     IF Has(d, "enumerable") THEN d.enumerable ELSE cur.e,
                     IF Has(d, "configurable") THEN d.configurable ELSE cur.c))])

----------------------------------------------------------------------------
(* AST nodes, as the parser produces them.  `end` is the node's source     *)
(* position: 0 stands for an absent one (polyfill and synthetic nodes).    *)

NoNode == [type |-> "none", end |-> 0]
IsNode(n) == n.type # "none"

Program(body) == [type |-> "Program", end |-> 1, body |-> body]
ExprStmt(e) == [type |-> "ExpressionStatement", end |-> 1, expression |-> e]
Lit(v) == [type |-> "Literal", end |-> 1, value |-> v]
Id(name) == [type |-> "Identifier", end |-> 1, name |-> name]
Call(callee, args) ==
    [type |-> "CallExpression", end |-> 1, callee |-> callee, arguments |-> args]
New(callee, args) ==
    [type |-> "NewExpression", end |-> 1, callee |-> callee, arguments |-> args]
Bin(op, l, r) ==
    [type |-> "BinaryExpression", end |-> 1, operator |-> op, left |-> l, right |-> r]
Assign(op, l, r) ==
    [type |-> "AssignmentExpression", end |-> 1, operator |-> op, left |-> l, right |-> r]
\* o.p
Member(o, p) ==
    [type |-> "MemberExpression", end |-> 1, object |-> o, property |-> Id(p),
     computed |-> FALSE]
Throw(arg) == [type |-> "ThrowStatement", end |-> 1, argument |-> arg]
Return(arg) == [type |-> "ReturnStatement", end |-> 1, argument |-> arg]
Block(body) == [type |-> "BlockStatement", end |-> 1, body |-> body]
Catch(param, body) ==
    [type |-> "CatchClause", end |-> 1, param |-> Id(param), body |-> body]
Try(block, handler, finalizer) ==
    [type |-> "TryStatement", end |-> 1, block |-> block, handler |-> handler,
     finalizer |-> finalizer]
FuncExpr(name, params, body) ==
    [type |-> "FunctionExpression", end |-> 1, id |-> name, params |-> params,
     body |-> body]
\* function name(params) { body }
FuncDecl(name, params, body) ==
    [type |-> "FunctionDeclaration", end |-> 1, id |-> name, params |-> params,
     body |-> body]
VarDecl(name, init) ==
    [type |-> "VariableDeclaration", end |-> 1,
     declarations |-> <<[id |-> Id(name), init |-> init]>>]
Unary(op, argument) ==
    [type |-> "UnaryExpression", end |-> 1, operator |-> op, argument |-> argument]
\* label "" stands for a statement without a label
Label(label) == IF label = "" THEN NoNode ELSE Id(label)
Break(label) == [type |-> "BreakStatement", end |-> 1, label |-> Label(label)]
Continue(label) == [type |-> "ContinueStatement", end |-> 1, label |-> Label(label)]
Labeled(label, body) ==
    [type |-> "LabeledStatement", end |-> 1, label |-> Id(label), body |-> body]
If(test, consequent, alternate) ==
    [type |-> "IfStatement", end |-> 1, test |-> test, consequent |-> consequent,
     alternate |-> alternate]
While(test, body) == [type |-> "WhileStatement", end |-> 1, test |-> test, body |-> body]
DoWhile(body, test) ==
    [type |-> "DoWhileStatement", end |-> 1, test |-> test, body |-> body]
For(init, test, update, body) ==
    [type |-> "ForStatement", end |-> 1, init |-> init, test |-> test,
     update |-> update, body |-> body]
\* for (left in right) body
ForIn(left, right, body) ==
    [type |-> "ForInStatement", end |-> 1, left |-> left, right |-> right,
     body |-> body]
\* o[p]
Index(o, p) ==
    [type |-> "MemberExpression", end |-> 1, object |-> o, property |-> p,
     computed |-> TRUE]
\* `case test: consequent`, or `default: consequent` when test is NoNode
Case(test, consequent) ==
    [type |-> "SwitchCase", end |-> 1, test |-> test, consequent |-> consequent]
SwitchOn(discriminant, cases) ==
    [type |-> "SwitchStatement", end |-> 1, discriminant |-> discriminant,
     cases |-> cases]

----------------------------------------------------------------------------
(* The object, scope and frame stores.                                     *)

EmptyMap == [k \in {} |-> Undef]

\* new S8Interpreter.Object(proto); proto 0 is null.
Object(proto) ==
    [proto |-> proto, class |-> "Object", properties |-> EmptyBag,
     getter |-> EmptyMap, setter |-> EmptyMap, preventExtensions |-> FALSE,
     illegalConstructor |-> FALSE, nativeFunc |-> "", asyncFunc |-> "",
     node |-> NoNode, parentScope |-> 0, data |-> Null]

\* new S8Interpreter.Scope(parentScope, strict, object); parentScope 0 is null.
Scope(parentScope, strict, object) ==
    [parentScope |-> parentScope, strict |-> strict, object |-> object]

NORMAL == "NORMAL"
BREAK == "BREAK"
CONTINUE == "CONTINUE"
RETURN == "RETURN"
THROW == "THROW"

NoCv == [type |-> NORMAL, value |-> Undef, label |-> ""]

\* new S8Interpreter.State(node, scope), with every bookkeeping field the
\* handlers add later at its absent (falsy) value.
State(node, scope) ==
    [node |-> node, scope |-> scope, value |-> Undef, done |-> FALSE,
     done_ |-> FALSE, components |-> FALSE, n_ |-> 0,
     doneCallee_ |-> 0, func_ |-> Undef, funcThis_ |-> Undef,
     arguments_ |-> << >>, doneArgs_ |-> FALSE, doneExec_ |-> FALSE,
     isConstructor |-> FALSE,
     doneLeft_ |-> FALSE, doneRight_ |-> FALSE, leftValue_ |-> Undef,
     leftReference_ |-> Undef, doneGetter_ |-> FALSE, doneSetter_ |-> FALSE,
     setterValue_ |-> Undef,
     doneBlock_ |-> FALSE, doneHandler_ |-> FALSE, doneFinalizer_ |-> FALSE,
     cv |-> NoCv, throwValue |-> Undef,
     doneObject_ |-> FALSE, doneProperty_ |-> FALSE, object_ |-> Undef,
     doneBody_ |-> FALSE, init_ |-> FALSE,
     labels |-> << >>, isLoop |-> FALSE, isSwitch |-> FALSE,
     mode_ |-> 0, test_ |-> 0, switchValue_ |-> Undef, defaultCase_ |-> -1,
     index_ |-> 0, matched_ |-> FALSE, tested_ |-> FALSE,
     doneInit_ |-> FALSE, doneVariable_ |-> FALSE, variable_ |-> Undef,
     visited_ |-> {}, name_ |-> Undef, props_ |-> [null |-> TRUE, names |-> << >>]]


\* The interpreter instance (with the host it is embedded in) as one record,
\* so that handlers are functions from instance to instance.
This ==
    [stack |-> stateStack, frames |-> frames, heap |-> heap, scopes |-> scopes,
     paused |-> paused_, value |-> value, getterStep |-> getterStep_,
     setterStep |-> setterStep_, host |-> host]

\* Well-known objects, in the order initGlobal creates them.
GLOBAL == 1
OBJECT_PROTO == 2
FUNCTION_PROTO == 3
ARRAY == 4
ARRAY_PROTO == 5
STRING_PROTO == 6
NUMBER_PROTO == 7
BOOLEAN_PROTO == 8
DATE == 9
DATE_PROTO == 10
REGEXP == 12
REGEXP_PROTO == 13
ERROR == 16
ERROR_PROTO == 17
RANGE_ERROR == 18
REFERENCE_ERROR == 21
TYPE_ERROR == 24
GLOBAL_SCOPE == 1

TopId(m) == m.stack[Len(m.stack)]
Top(m) == m.frames[TopId(m)]
Pop(m) == [m EXCEPT !.stack = SubSeq(@, 1, Len(@) - 1)]

\* stack[stack.length - 1].value = v
SetTopValue(m, v) == [m EXCEPT !.frames[TopId(m)].value = v]

\* this.getScope()
getScope(m) == m.scopes[Top(m).scope]

\* Results of operations that may throw.  exc is "none", "STEP_ERROR" (a
\* guest exception was put on the stack by unwind) or "host" (a host-level
\* error, err, propagates to the caller of step()).
\* A host error is an Error object (kind "Error") with a name and a message,
\* or a string.  `thrown` is not part of it: it remembers, for an error that
\* unwind throws, the guest value whose throw went unhandled.
NoThrow == [t |-> "none"]
NoErr == [kind |-> "none", name |-> "", message |-> Undef, thrown |-> NoThrow]
HostErr(name, message) ==
    [kind |-> "Error", name |-> name, message |-> message, thrown |-> NoThrow]
HostStr(s) == [kind |-> "string", name |-> "", message |-> Str(s), thrown |-> NoThrow]

Ret(m, v) == [m |-> m, v |-> v, exc |-> "none", err |-> NoErr]
Raise(m, err) == [m |-> m, v |-> Undef, exc |-> "host", err |-> err]
StepError(m) == [m |-> m, v |-> Undef, exc |-> "STEP_ERROR", err |-> NoErr]

\* this.getPrototype(value): an object id, 0 for null.
getPrototype(m, v) ==
    CASE IsNumber(v) -> NUMBER_PROTO
      [] v.t = "boolean" -> BOOLEAN_PROTO
      [] v.t = "string" -> STRING_PROTO
      [] v.t = "object" -> m.heap[v.v].proto
      [] OTHER -> 0

\* The value of ctor.properties['prototype'] as an object id (0 if none).
PrototypeOf(m, ctor) ==
    LET p == Get(m.heap[ctor].properties, "prototype")
    IN  IF IsObj(p) THEN p.v ELSE 0

RECURSIVE ProtoChainHas(_, _, _)
ProtoChainHas(m, id, proto) ==
    IF id = 0 THEN FALSE
    ELSE IF id = proto THEN TRUE
    ELSE ProtoChainHas(m, m.heap[id].proto, proto)

\* this.isa(child, constructor); constructor 0 is an undefined one.
isa(m, child, constructor) ==
    IF child.t \in {"null", "undefined"} \/ constructor = 0
          \/ constructor > Len(m.heap)
    THEN FALSE
    ELSE LET proto == PrototypeOf(m, constructor)
         IN  \/ child = Obj(proto)
             \/ proto # 0 /\ ProtoChainHas(m, getPrototype(m, child), proto)

----------------------------------------------------------------------------
(* Conversion to string, object creation, unwinding.                       *)

\* The do-while loop of getProperty / hasProperty: the first object on the
\* prototype chain of value v that has name among its properties, 0 if none.
RECURSIVE Owner(_, _, _)
Owner(m, v, name) ==
    IF IsObj(v) /\ In(m.heap[v.v].properties, name) THEN v.v
    ELSE LET up == getPrototype(m, v)
         IN  IF up = 0 THEN 0 ELSE Owner(m, Obj(up), name)

\* The data value that a walk of obj.proto finds for name (toString's loops).
RECURSIVE Inherited(_, _, _)
Inherited(m, id, name) ==
    IF id = 0 THEN Undef
    ELSE IF In(m.heap[id].properties, name) THEN Get(m.heap[id].properties, name)
    ELSE Inherited(m, m.heap[id].proto, name)

\* String(value): S8Interpreter.Object.prototype.toString for objects;
\* cycles is S8Interpreter.toStringCycles_.
RECURSIVE ToStr(_, _, _)
ToStr(m, v, cycles) ==
    IF ~IsObj(v) THEN PrimStr(v)
    ELSE Let(m.heap[v.v], LAMBDA o :
         Let(cycles \cup {v.v}, LAMBDA seen :
         CASE o.class = "Array" ->
                Let(legalArrayLength(Get(o.properties, "length")), LAMBDA len :
                    LET Join[i \in 0..Modulus] ==
                            IF i >= len THEN ""
                            ELSE (IF i = 0 THEN "" ELSE ",")
                                 \o Let(Get(o.properties, NumStr(i)), LAMBDA e :
                                        IF IsObj(e) /\ e.v \in seen THEN "..."
                                        ELSE IF e.t \in {"undefined", "null"} THEN ""
                                        ELSE ToStr(m, e, seen))
                                 \o Join[i + 1]
                    IN  Join[0])
           [] o.class = "Error" ->
                IF v.v \in cycles THEN "[object Error]"
                ELSE Let(Inherited(m, v.v, "name"), LAMBDA name :
                     Let(Inherited(m, v.v, "message"), LAMBDA message :
                     Let(IF Truthy(name) THEN ToStr(m, name, seen) ELSE PrimStr(name),
                         LAMBDA nameStr :
                         IF Truthy(message)
                         THEN nameStr \o ": " \o ToStr(m, message, seen)
                         ELSE nameStr)))
           [] OTHER -> "[object " \o o.class \o "]"))

String(m, v) == ToStr(m, v, {})

\* this.createObjectProto(proto): the new object is Len(heap).
createObjectProto(m, proto) ==
    Let([m EXCEPT !.heap = Append(@, Object(proto))], LAMBDA m1 :
        IF isa(m1, Obj(Len(m1.heap)), ERROR)
        THEN [m1 EXCEPT !.heap[Len(m1.heap)].class = "Error"]
        ELSE m1)

New_(m) == Len(m.heap)

\* An errorTable without its TypeError entry.
errorTableShort == {"EvalError", "RangeError", "ReferenceError", "SyntaxError", "URIError"}

errorTable ==
    {"EvalError", "RangeError", "ReferenceError", "SyntaxError", "TypeError", "URIError"}

\* The tail of unwind: the completion was not handled, throw a real error.
\* getProperty's outcome for name and message is read off the owner found.
Unhandled(m, val) ==
    Let(isa(m, val, ERROR), LAMBDA isError :
    Let(IF isError THEN Owner(m, val, "name") ELSE 0, LAMBDA nameAt :
    Let(IF isError THEN Owner(m, val, "message") ELSE 0, LAMBDA msgAt :
    Let(nameAt # 0 /\ "name" \in DOMAIN m.heap[nameAt].getter, LAMBDA nameGetter :
    Let(msgAt # 0 /\ "message" \in DOMAIN m.heap[msgAt].getter, LAMBDA msgGetter :
    Let(IF msgAt = 0 THEN Undef
        ELSE IF msgGetter THEN m.heap[msgAt].getter["message"]
        ELSE Get(m.heap[msgAt].properties, "message"), LAMBDA message :
    Let([m EXCEPT !.getterStep = @ \/ nameGetter \/ msgGetter], LAMBDA m1 :
    \* String(name) of an Error, String(value) of anything else
    Let(String(m, IF ~isError THEN val
                  ELSE IF nameAt = 0 \/ nameGetter THEN Undef
                  ELSE Get(m.heap[nameAt].properties, "name")), LAMBDA str :
        IF ~isError THEN Raise(m, [HostStr(str) EXCEPT !.thrown = val])
        ELSE IF m.getterStep \/ nameGetter
        THEN Raise(m1, HostErr("Error", Str("Getter not supported in that context")))
        ELSE IF message.t \in {"undefined", "null"}
        THEN Raise(m1, HostErr("TypeError", Str("Cannot read property 'valueOf'")))
        ELSE Raise(m1, [HostErr(IF str \in errorTable THEN str ELSE "Error", message)
                           EXCEPT !.thrown = val])))))))))

\* An unwind that pops the root Program as it pops the other states.
RECURSIVE unwindPopsRoot(_, _, _, _)
unwindPopsRoot(m, type, val, label) ==
    IF Len(m.stack) = 0
    THEN Unhandled(m, val)
    ELSE Let(TopId(m), LAMBDA s :
         Let(m.frames[s], LAMBDA state :
         Let(state.node.type \in {"CallExpression", "NewExpression"}, LAMBDA isCall :
         Let(IF label # ""
             THEN \E i \in 1..Len(state.labels) : state.labels[i] = label
             ELSE state.isLoop \/ (type = BREAK /\ state.isSwitch), LAMBDA labelled :
             CASE state.node.type = "TryStatement" ->
                    Ret([m EXCEPT !.frames[s].cv =
                            [type |-> type, value |-> val, label |-> label]], Undef)
               [] isCall /\ type = RETURN ->
                    Ret([m EXCEPT !.frames[s].value = val], Undef)
               [] isCall /\ type # THROW ->
                    Raise(m, HostErr("Error",
                        Str("Unsynatctic break/continue not rejected by Acorn")))
               [] type = BREAK /\ labelled -> Ret(Pop(m), Undef)
               [] type = CONTINUE /\ labelled -> Ret(m, Undef)
               [] OTHER -> unwindPopsRoot(
                               Pop([m EXCEPT !.frames[s].done =
                                       @ \/ state.node.type = "Program"]),
                               type, val, label)))))

\* S8Interpreter.prototype.unwind
RECURSIVE unwind(_, _, _, _)
unwind(m, type, val, label) ==
    IF Len(m.stack) = 0 \/ Top(m).node.type = "Program"
    THEN \* case 'Program': state.done = true; break loop;
         Unhandled(IF Len(m.stack) = 0 THEN m
                   ELSE [m EXCEPT !.frames[TopId(m)].done = TRUE], val)
    ELSE Let(TopId(m), LAMBDA s :
         Let(m.frames[s], LAMBDA state :
         Let(state.node.type \in {"CallExpression", "NewExpression"}, LAMBDA isCall :
         Let(IF label # ""
             THEN \E i \in 1..Len(state.labels) : state.labels[i] = label
             ELSE state.isLoop \/ (type = BREAK /\ state.isSwitch), LAMBDA labelled :
             CASE state.node.type = "TryStatement" ->
                    Ret([m EXCEPT !.frames[s].cv =
                            [type |-> type, value |-> val, label |-> label]], Undef)
               [] isCall /\ type = RETURN ->
                    Ret([m EXCEPT !.frames[s].value = val], Undef)
               [] isCall /\ type # THROW ->
                    Raise(m, HostErr("Error",
                        Str("Unsynatctic break/continue not rejected by Acorn")))
               [] type = BREAK /\ labelled -> Ret(Pop(m), Undef)
               [] type = CONTINUE /\ labelled -> Ret(m, Undef)
               [] OTHER -> unwind(Pop(m), type, val, label)))))

\* A throw that aborts the step with STEP_ERROR whatever unwind did.
throwValueSwallowed(m, val) == StepError(unwind(m, THROW, val, "").m)

\* throwException(value): unwind, then abort the step with STEP_ERROR.
throwValue(m, val) ==
    Let(unwind(m, THROW, val, ""), LAMBDA u :
        IF u.exc = "host" THEN u ELSE StepError(u.m))

----------------------------------------------------------------------------
(* The object model: creation, getProperty, hasProperty, setProperty.      *)

\* Sequencing of operations that may throw: f is applied to a normal result.
Bind(r, f(_)) == IF r.exc = "none" THEN f(r) ELSE r

\* this.createObject(constructor); v is the new object.
createObject(m, constructor) ==
    Let(Get(m.heap[constructor].properties, "prototype"), LAMBDA p :
        IF p.t \notin {"object", "null"}
        THEN Raise(m, HostErr("Error", Str("Non object prototype")))
        ELSE Let(createObjectProto(m, IF IsObj(p) THEN p.v ELSE 0), LAMBDA m1 :
                 Ret(m1, Obj(New_(m1)))))

\* this.createArray(); the new array is New_ of the result.
createArray(m) ==
    Let(createObjectProto(m, ARRAY_PROTO), LAMBDA m1 :
        [m1 EXCEPT !.heap[New_(m1)].properties =
                       HostDefine(@, "length",
                                  LENGTH_DESCRIPTOR @@ [value |-> Num(0)]).bag,
                   !.heap[New_(m1)].class = "Array"])

\* A call this.throwException(errorClass, message).  No code of the
\* interpreter runs between this call and the catch in step(), so what the
\* call does is done by Thrown, where the handler is left.
throwException(m, errorClass, message) ==
    [m |-> m, v |-> Undef, exc |-> "throwException",
     err |-> [kind |-> "guest", name |-> errorClass, message |-> Str(message),
              thrown |-> NoThrow]]

\* obj.getter[name] = f, delete obj.getter[name]
MapSet(map, name, f) ==
    [x \in DOMAIN map \cup {name} |-> IF x = name THEN f ELSE map[x]]
MapDelete(map, name) == [x \in DOMAIN map \ {name} |-> map[x]]

\* this.hasProperty(obj, name) for an S8Interpreter.Object obj.
hasProperty(m, obj, name) == Owner(m, obj, name) # 0

\* this.getProperty(obj, name): v is the value, or the getter function when
\* the result's getterStep flag is set.
getProperty(m, obj, name) ==
    IF m.getterStep
    THEN Raise(m, HostErr("Error", Str("Getter not supported in that context")))
    ELSE IF obj.t \in {"undefined", "null"}
    THEN throwException(m, TYPE_ERROR,
                        "Cannot read property '" \o name \o "' of " \o obj.t)
    ELSE Let(Owner(m, obj, name), LAMBDA at :
             IF at = 0 THEN Ret(m, Undef)
             ELSE IF name \in DOMAIN m.heap[at].getter
             THEN Ret([m EXCEPT !.getterStep = TRUE], m.heap[at].getter[name])
             ELSE Ret(m, Get(m.heap[at].properties, name)))

\* for (i in obj.properties) if (!isNaN(i) && value <= i) delete ...: ok is
\* FALSE when the host's delete throws.
RECURSIVE Truncate(_, _, _)
Truncate(bag, keys, val) ==
    IF keys = << >> THEN [ok |-> TRUE, bag |-> bag]
    ELSE Let(legalArrayIndex(Head(keys)), LAMBDA i :
             IF i # NotAnIndex /\ val <= i
             THEN Let(HostDelete(bag, Head(keys)), LAMBDA del :
                      IF del.ok THEN Truncate(del.bag, Tail(keys), val) ELSE del)
             ELSE Truncate(bag, Tail(keys), val))

\* The Array branch of setProperty.  kind is "go" (carry on with val),
\* "return" (setProperty returns here) or "throw" (r is what is thrown).
setPropertyArray_(m, obj, name, val, d) ==
    LET go(m1, v) == [kind |-> "go", m |-> m1, val |-> v, r |-> Ret(m1, Undef)]
        out(kind, r) == [kind |-> kind, m |-> r.m, val |-> val, r |-> r]
        hostTypeError(m1) ==
            Raise(m1, HostErr("TypeError", Str("Cannot assign or delete")))
    IN  Let(m.heap[obj.v], LAMBDA o :
        Let(ToNumber(Get(o.properties, "length")), LAMBDA len :
        IF o.class # "Array" THEN go(m, val)
        ELSE IF name = "length"
        THEN IF d # NoDescriptor /\ ~Has(d, "value") THEN out("return", Ret(m, Undef))
             ELSE Let(legalArrayLength(IF d # NoDescriptor THEN d.value ELSE val),
                      LAMBDA v :
                  IF v = NotAnIndex
                  THEN out("throw", throwException(m, RANGE_ERROR, "Invalid array length"))
                  ELSE IF \/ len.t = "number" /\ v < len.v
                          \/ len.t = "fraction" /\ v < 2
                  THEN Let(SelectSeq(o.properties, LAMBDA p : p.e), LAMBDA enumerable :
                       Let(Truncate(o.properties,
                               [i \in 1..Len(enumerable) |-> enumerable[i].k], v),
                           LAMBDA t :
                       Let([m EXCEPT !.heap[obj.v].properties = t.bag], LAMBDA m1 :
                           IF t.ok THEN go(m1, Num(v))
                           ELSE out("throw", hostTypeError(m1)))))
                  ELSE go(m, Num(v)))
        ELSE Let(legalArrayIndex(name), LAMBDA i :
             IF i = NotAnIndex THEN go(m, val)
             ELSE \* obj.properties.length = Math.max(length, i + 1)
                  Let(HostSet(o.properties, "length",
                          IF len.t = "number"
                          THEN Num(IF len.v > i + 1 THEN len.v ELSE i + 1)
                          ELSE IF len.t = "fraction" /\ i + 1 < 2 THEN Frac
                          ELSE IF len.t = "fraction" THEN Num(i + 1) ELSE NaN),
                      LAMBDA set :
                      IF set.ok THEN go([m EXCEPT !.heap[obj.v].properties = set.bag], val)
                      ELSE out("throw", hostTypeError(m))))))

\* setProperty with a descriptor: the accessor tables, then the host's
\* Object.defineProperty(obj.properties, name, descriptor).
setPropertyDescriptor_(m, obj, name, val, d) ==
    Let(m.heap[obj.v], LAMBDA o :
    Let([f \in DOMAIN d \cap {"configurable", "enumerable", "writable"} |-> d[f]],
        LAMBDA flags :
    Let(Has(d, "writable") \/ Has(d, "value") \/ val # VALUE_IN_DESCRIPTOR, LAMBDA data :
    Let(IF Has(d, "get") /\ Truthy(d.get) THEN MapSet(o.getter, name, d.get)
        ELSE IF Has(d, "get") THEN MapDelete(o.getter, name)
        ELSE o.getter, LAMBDA getter1 :
    Let(IF Has(d, "set") /\ Truthy(d.set) THEN MapSet(o.setter, name, d.set)
        ELSE IF Has(d, "set") THEN MapDelete(o.setter, name)
        ELSE o.setter, LAMBDA setter1 :
    Let(HostDefine(o.properties, name,
            IF Has(d, "value") THEN flags @@ [value |-> d.value]
            ELSE IF val # VALUE_IN_DESCRIPTOR THEN flags @@ [value |-> val]
            ELSE flags), LAMBDA defined :
    Let([m EXCEPT
           !.heap[obj.v].getter = IF data THEN MapDelete(getter1, name) ELSE getter1,
           !.heap[obj.v].setter = IF data THEN MapDelete(setter1, name) ELSE setter1,
           !.heap[obj.v].properties = defined.bag], LAMBDA m2 :
        IF defined.ok THEN Ret(m2, Undef)
        ELSE throwException(m2, TYPE_ERROR, "Cannot redefine property: " \o name))))))))

\* this.setProperty(obj, name, value, opt_descriptor): v is the setter
\* function when the result's setterStep flag is set, else undefined.
setProperty(m, obj, name, value0, d) ==
    Let(Len(m.stack) = 0 \/ getScope(m).strict, LAMBDA strict :
        IF m.setterStep
        THEN Raise(m, HostErr("Error", Str("Setter not supported in that context")))
        ELSE IF obj.t \in {"undefined", "null"}
        THEN throwException(m, TYPE_ERROR,
                            "Cannot set property '" \o name \o "' of " \o obj.t)
        ELSE IF /\ d # NoDescriptor
                /\ Has(d, "get") \/ Has(d, "set")
                /\ Has(d, "value") \/ Has(d, "writable")
        THEN throwException(m, TYPE_ERROR,
                 "Invalid property descriptor. Cannot both specify accessors "
                 \o "and a value or writable attribute")
        ELSE IF ~IsObj(obj)
        THEN IF strict
             THEN throwException(m, TYPE_ERROR, "Can't create property '" \o name \o "'")
             ELSE Ret(m, Undef)
        ELSE
        Let(setPropertyArray_(m, obj, name, value0, d), LAMBDA a :
        Let(a.m, LAMBDA m1 :
        Let(a.m.heap[obj.v], LAMBDA o :
            IF a.kind # "go" THEN a.r
            ELSE IF o.preventExtensions /\ ~In(o.properties, name)
            THEN IF strict
                 THEN throwException(m1, TYPE_ERROR,
                          "Can't add property '" \o name \o "', object is not extensible")
                 ELSE Ret(m1, Undef)
            ELSE IF d # NoDescriptor THEN setPropertyDescriptor_(m1, obj, name, a.val, d)
            ELSE IF a.val = VALUE_IN_DESCRIPTOR
            THEN Raise(m1, HostErr("ReferenceError", Str("Value not specified.")))
            ELSE
            \* the object on the prototype chain that defines name, else obj
            Let(Owner(m1, obj, name), LAMBDA at :
            Let(m1.heap[IF at = 0 THEN obj.v ELSE at], LAMBDA defObj :
            Let(HostSet(o.properties, name, a.val), LAMBDA assigned :
                IF name \in DOMAIN defObj.setter
                THEN Ret([m1 EXCEPT !.setterStep = TRUE], defObj.setter[name])
                ELSE IF name \in DOMAIN defObj.getter
                THEN IF strict
                     THEN throwException(m1, TYPE_ERROR,
                              "Cannot set property '" \o name
                              \o "' which only has a getter")
                     ELSE Ret(m1, Undef)
                ELSE IF assigned.ok
                THEN Ret([m1 EXCEPT !.heap[obj.v].properties = assigned.bag], Undef)
                ELSE IF strict
                THEN throwException(m1, TYPE_ERROR,
                         "Cannot assign to read only property '" \o name \o "'")
                ELSE Ret(m1, Undef))))))))

\* What the call this.throwException(errorClass, message) that r stands for
\* does: the error object is created, given its message, and thrown.
Thrown(r) ==
    IF r.exc # "throwException" THEN r
    ELSE Bind(createObject(r.m, r.err.name), LAMBDA error :
         Bind(setProperty(error.m, error.v, "message", r.err.message,
                          NONENUMERABLE_DESCRIPTOR), LAMBDA set :
              throwValue(set.m, error.v)))

----------------------------------------------------------------------------
(* Functions and scopes.                                                   *)

\* The id the next created object gets.
Fresh(m) == Len(m.heap) + 1

\* setProperty where nothing it does can throw.
Put(m, obj, name, val, d) == setProperty(m, Obj(obj), name, val, d).m

\* this.createFunctionBase_(argumentLength, isConstructor); the function is
\* Fresh(m), its prototype object (if any) Fresh(m) + 1.
createFunctionBase_(m, argumentLength, isConstructor) ==
    Let(Fresh(m), LAMBDA func :
    Let(createObjectProto(m, FUNCTION_PROTO), LAMBDA m1 :
    Let(IF isConstructor
        THEN Put(Put(createObjectProto(m1, OBJECT_PROTO),
                     func, "prototype", Obj(func + 1), NONENUMERABLE_DESCRIPTOR),
                 func + 1, "constructor", Obj(func), NONENUMERABLE_DESCRIPTOR)
        ELSE [m1 EXCEPT !.heap[func].illegalConstructor = TRUE], LAMBDA m5 :
        [Put(m5, func, "length", Num(argumentLength),
             READONLY_NONENUMERABLE_DESCRIPTOR) EXCEPT !.heap[func].class = "Function"])))

\* this.createFunction(node, scope)
createFunction(m, node, scope) ==
    [createFunctionBase_(m, Len(node.params), TRUE) EXCEPT
        !.heap[Fresh(m)].parentScope = scope, !.heap[Fresh(m)].node = node]

\* An access of the instance to a location that belongs to the class or to
\* the host, not to the instance: S8Interpreter.vm, createWorker.blob_, or
\* the property `id` of a function of the host.
Access(m, location, write) ==
    [m EXCEPT !.host.accesses =
        @ \cup {[instance |-> m.host.current, location |-> location, write |-> write]}]

\* Functions of the host that are no closures of one instance: every
\* instance hands the same function object to createNativeFunction.
HostFunctions == {"Date.now"}

\* this.functionCounter_: FUNCTION_PROTO.nativeFunc has id 0, and every
\* native and asynchronous function created since has the next one.
functionCounter_(m) ==
    1 + Cardinality({o \in DOMAIN m.heap :
                        m.heap[o].nativeFunc # "" \/ m.heap[o].asyncFunc # ""})

\* A createNativeFunction that leaves the host function as it is.
createNativeFunctionNoId(m, nativeFunc, argumentLength, isConstructor) ==
    [createFunctionBase_(m, argumentLength, isConstructor) EXCEPT
        !.heap[Fresh(m)].nativeFunc = nativeFunc]

\* this.createNativeFunction(nativeFunc, isConstructor): the host function
\* is known by its name; nativeFunc.id = this.functionCounter_++ is a write
\* to the host's function, kept in host.ids for the functions every
\* instance shares.
createNativeFunction(m, nativeFunc, argumentLength, isConstructor) ==
    Let([createFunctionBase_(m, argumentLength, isConstructor) EXCEPT
            !.heap[Fresh(m)].nativeFunc = nativeFunc], LAMBDA m1 :
        IF nativeFunc \in HostFunctions
        THEN Access([m1 EXCEPT !.host.ids =
                        {x \in @ : x.func # nativeFunc}
                            \cup {[func |-> nativeFunc, id |-> functionCounter_(m)]}],
                    nativeFunc \o ".id", TRUE)
        ELSE m1)

\* this.createAsyncFunction(asyncFunc)
createAsyncFunction(m, asyncFunc, argumentLength) ==
    [createFunctionBase_(m, argumentLength, TRUE) EXCEPT
        !.heap[Fresh(m)].asyncFunc = asyncFunc]

\* The statements of a node in which populateScope_ looks for declarations.
Children(node) ==
    CASE node.type \in {"Program", "BlockStatement"} -> node.body
      [] node.type = "TryStatement" ->
            SelectSeq(<<node.block, node.handler, node.finalizer>>, IsNode)
      [] node.type = "CatchClause" -> <<node.body>>
      [] node.type \in {"WhileStatement", "DoWhileStatement", "LabeledStatement"} ->
            <<node.body>>
      [] node.type = "ForStatement" -> SelectSeq(<<node.init, node.body>>, IsNode)
      [] node.type = "ForInStatement" -> SelectSeq(<<node.left, node.body>>, IsNode)
      [] node.type = "IfStatement" ->
            SelectSeq(<<node.consequent, node.alternate>>, IsNode)
      [] node.type = "SwitchStatement" -> node.cases
      [] node.type = "SwitchCase" -> node.consequent
      [] OTHER -> << >>

\* this.populateScope_(node, scope)
RECURSIVE populateScope_(_, _, _)
populateScope_(m, node, scope) ==
    LET object == Obj(m.scopes[scope].object)
        Each[i \in 0..Len(Children(node))] ==
            IF i = 0 THEN Ret(m, Undef)
            ELSE Bind(Each[i - 1], LAMBDA r : populateScope_(r.m, Children(node)[i], scope))
    IN  IF node.type = "VariableDeclaration"
        THEN setProperty(m, object, node.declarations[1].id.name, Undef,
                         VARIABLE_DESCRIPTOR)
        ELSE IF node.type = "FunctionDeclaration"
        THEN setProperty(createFunction(m, node, scope), object, node.id,
                         Obj(Fresh(m)), VARIABLE_DESCRIPTOR)
        ELSE Each[Len(Children(node))]

\* The object and the Scope of createScope / createSpecialScope; the new
\* scope's id is Len(scopes) of the result.
NewScope(m, parentScope, strict, object) ==
    [m EXCEPT !.scopes = Append(@, Scope(parentScope, strict, object))]

\* createScope: does this scope start with `use strict`?
UseStrict(node) ==
    LET firstNode == IF Len(node.body) > 0 THEN node.body[1] ELSE NoNode
    IN  /\ firstNode.type = "ExpressionStatement"
        /\ firstNode.expression.type = "Literal"
        /\ firstNode.expression.value = Str("use strict")

\* this.createScope(node, parentScope) for a function body.
createScope(m, node, parentScope) ==
    Let(createObjectProto(m, 0), LAMBDA m1 :
    Let(NewScope(m1, parentScope, m.scopes[parentScope].strict \/ UseStrict(node),
                 New_(m1)), LAMBDA m2 :
        populateScope_(m2, node, Len(m2.scopes))))

\* this.createSpecialScope(parentScope, opt_object)
createSpecialScope(m, parentScope, opt_object) ==
    Let(IF IsObj(opt_object) THEN m ELSE createObjectProto(m, 0), LAMBDA m1 :
        NewScope(m1, parentScope, m.scopes[parentScope].strict,
                 IF IsObj(opt_object) THEN opt_object.v ELSE New_(m1)))

\* The first scope from `scope` up to, not including, the global scope whose
\* object has name among its properties; the global scope or 0 otherwise.
RECURSIVE Binding(_, _, _)
Binding(m, scope, name) ==
    IF scope = 0 \/ scope = GLOBAL_SCOPE THEN scope
    ELSE IF In(m.heap[m.scopes[scope].object].properties, name) THEN scope
    ELSE Binding(m, m.scopes[scope].parentScope, name)

\* this.getValueFromScope(name)
getValueFromScope(m, name) ==
    LET scope == Binding(m, Top(m).scope, name)
        prevNode == Top(m).node
    IN  IF scope # 0 /\ scope # GLOBAL_SCOPE
        THEN Ret(m, Get(m.heap[m.scopes[scope].object].properties, name))
        ELSE IF scope = GLOBAL_SCOPE /\ hasProperty(m, Obj(GLOBAL), name)
        THEN getProperty(m, Obj(GLOBAL), name)
        ELSE IF prevNode.type = "UnaryExpression" /\ prevNode.operator = "typeof"
        THEN Ret(m, Undef)
        ELSE throwException(m, REFERENCE_ERROR, name \o " is not defined")

\* this.setValueToScope(name, value)
setValueToScope(m, name, val) ==
    Let(Binding(m, Top(m).scope, name), LAMBDA scope :
        IF scope # 0 /\ scope # GLOBAL_SCOPE
        THEN \* scope.object.properties[name] = value
             Let(m.scopes[scope].object, LAMBDA object :
             Let(HostSet(m.heap[object].properties, name, val), LAMBDA set :
                 IF set.ok THEN Ret([m EXCEPT !.heap[object].properties = set.bag], Undef)
                 ELSE Raise(m, HostErr("TypeError",
                                       Str("Cannot assign to read only property")))))
        ELSE IF /\ scope = GLOBAL_SCOPE
                /\ ~getScope(m).strict \/ hasProperty(m, Obj(GLOBAL), name)
        THEN setProperty(m, Obj(GLOBAL), name, val, NoDescriptor)
        ELSE throwException(m, REFERENCE_ERROR, name \o " is not defined"))

\* this.getValue(ref), this.setValue(ref, value)
getValue(m, ref) ==
    IF ref.base = SCOPE_REFERENCE THEN getValueFromScope(m, ref.name)
    ELSE getProperty(m, ref.base, ref.name)

setValue(m, ref, val) ==
    IF ref.base = SCOPE_REFERENCE THEN setValueToScope(m, ref.name, val)
    ELSE setProperty(m, ref.base, ref.name, val, NoDescriptor)

----------------------------------------------------------------------------
(* The host bridge: nativeToPseudo and pseudoToNative.                      *)
(* Objects of the host live in host.natives, a store indexed by id, as the *)
(* guest's live in heap.  A host object has a class (Object, Array, Date,  *)
(* RegExp), a property bag, and for a Date its time value, for a RegExp    *)
(* its source, as data.                                                    *)

NativeRef(id) == [t |-> "native", v |-> id]
IsNative(v) == v.t = "native"
NativeObject(class, properties, data) ==
    [class |-> class, properties |-> properties, data |-> data]

\* A host expression that creates an object: the new object is the last.
Alloc(m, nativeObj) == [m EXCEPT !.host.natives = Append(@, nativeObj)]
NewNative(m) == NativeRef(Len(m.host.natives))

\* The keys of a bag that satisfy test, in the host's enumeration order.
KeysOf(bag, test(_)) ==
    Let(SelectSeq(bag, test), LAMBDA sel : [i \in 1..Len(sel) |-> sel[i].k])

\* nativeArray[i] = v of the host, for an index i.
NativeArraySet(bag, i, v) ==
    Let(HostSet(bag, NumStr(i), v).bag, LAMBDA b :
        IF Get(b, "length").v > i THEN b
        ELSE Replace(b, Prop("length", Num(i + 1), TRUE, FALSE, FALSE)))

\* The host's Date with id itself, in place of a new one.
SameDate(m, id) == [m |-> m, v |-> NativeRef(id)]

\* new Date(nativeDate.valueOf()) for the host's Date with id: v is the new Date.
NewDate(m, id) ==
    Let(Alloc(m, NativeObject("Date", EmptyBag, m.host.natives[id].data)), LAMBDA m1 :
        [m |-> m1, v |-> NewNative(m1)])

\* new RegExp(nativeRegexp.source, nativeRegexp.flags): lastIndex is 0.
NewRegExp(m, nativeRegexp) ==
    Alloc(m, NativeObject("RegExp", <<Prop("lastIndex", Num(0), TRUE, FALSE, FALSE)>>,
                          nativeRegexp.data))

\* this.populateRegExp(pseudoRegexp, nativeRegexp); the flags are empty.
populateRegExp(m, pseudoRegexp, nativeRegexp) ==
    Let(NewRegExp(m, nativeRegexp), LAMBDA m1 :
    Let([m1 EXCEPT !.heap[pseudoRegexp].data = NewNative(m1)], LAMBDA m2 :
        Bind(setProperty(m2, Obj(pseudoRegexp), "lastIndex",
                         Get(nativeRegexp.properties, "lastIndex"),
                         NONENUMERABLE_DESCRIPTOR), LAMBDA r1 :
        Bind(setProperty(r1.m, Obj(pseudoRegexp), "source", nativeRegexp.data,
                         READONLY_NONENUMERABLE_DESCRIPTOR), LAMBDA r2 :
        Bind(setProperty(r2.m, Obj(pseudoRegexp), "global", Bool(FALSE),
                         READONLY_NONENUMERABLE_DESCRIPTOR), LAMBDA r3 :
        Bind(setProperty(r3.m, Obj(pseudoRegexp), "ignoreCase", Bool(FALSE),
                         READONLY_NONENUMERABLE_DESCRIPTOR), LAMBDA r4 :
             setProperty(r4.m, Obj(pseudoRegexp), "multiline", Bool(FALSE),
                         READONLY_NONENUMERABLE_DESCRIPTOR)))))))

\* this.nativeToPseudo(nativeObj); functions of the host are not modelled.
\* nativeToPseudoProps_ is the loop over the keys of an array or an object:
\* setProperty(pseudo, key, nativeToPseudo(native[key])) for the keys left.
RECURSIVE nativeToPseudo(_, _), nativeToPseudoProps_(_, _, _, _)
nativeToPseudo(m, nativeObj) ==
    IF IsObj(nativeObj) THEN Raise(m, HostErr("Error", Str("Object is already pseudo")))
    ELSE IF ~IsNative(nativeObj) THEN Ret(m, nativeObj)
    ELSE Let(m.host.natives[nativeObj.v], LAMBDA n :
        CASE n.class = "RegExp" ->
               Let(createObjectProto(m, REGEXP_PROTO), LAMBDA m1 :
                   Bind(populateRegExp(m1, New_(m1), n), LAMBDA r :
                        Ret(r.m, Obj(New_(m1)))))
          [] n.class = "Date" ->
               Let(createObjectProto(m, DATE_PROTO), LAMBDA m1 :
               Let(NewDate(m1, nativeObj.v), LAMBDA d :
                   Ret([d.m EXCEPT !.heap[New_(m1)].data = d.v], Obj(New_(m1)))))
          [] n.class = "Array" ->
               Let(createArray(m), LAMBDA m1 :
                   nativeToPseudoProps_(m1, New_(m1), nativeObj.v,
                       KeysOf(n.properties, LAMBDA p : p.k # "length")))
          [] OTHER ->
               Let(createObjectProto(m, OBJECT_PROTO), LAMBDA m1 :
                   nativeToPseudoProps_(m1, New_(m1), nativeObj.v,
                       KeysOf(n.properties, LAMBDA p : p.e))))
nativeToPseudoProps_(m, pseudo, native, keys) ==
    IF keys = << >> THEN Ret(m, Obj(pseudo))
    ELSE Bind(nativeToPseudo(m, Get(m.host.natives[native].properties, Head(keys))),
              LAMBDA r :
         Bind(setProperty(r.m, Obj(pseudo), Head(keys), r.v, NoDescriptor), LAMBDA s :
              nativeToPseudoProps_(s.m, pseudo, native, Tail(keys))))

\* An indexOf that gives the last position of the sequence for an id it has.
IndexOfLast(seq, id) ==
    IF \E i \in DOMAIN seq : seq[i] = id THEN Len(seq) ELSE 0

\* The position of id in a sequence, 0 if it is not there: indexOf.
IndexOf(seq, id) ==
    IF \E i \in DOMAIN seq : seq[i] = id
    THEN CHOOSE i \in DOMAIN seq : seq[i] = id /\ \A j \in 1..(i - 1) : seq[j] # id
    ELSE 0

\* `i < length` for the value length of the guest.
Below(i, length) ==
    Let(ToNumber(length), LAMBDA n : n.t = "number" /\ i < n.v)

\* A loop of the Object branch that copies no key.
pseudoToNativeCopiesNone_(m, pseudoObj, nativeObj, cycles, keys) ==
    Ret(m, NativeRef(nativeObj))

\* this.pseudoToNative(pseudoObj, opt_cycles); cycles is the pair of stacks
\* cycles.pseudo and cycles.native, which every call leaves as it found them.
\* pseudoToNativeItems_ is the loop of the Array branch from index i on,
\* pseudoToNativeProps_ the loop of the Object branch over the keys left.
RECURSIVE pseudoToNative(_, _, _), pseudoToNativeItems_(_, _, _, _, _, _),
          pseudoToNativeProps_(_, _, _, _, _)
pseudoToNative(m, pseudoObj, cycles) ==
    IF IsNative(pseudoObj) THEN Raise(m, HostErr("Error", Str("Object is not pseudo")))
    ELSE IF ~IsObj(pseudoObj) THEN Ret(m, pseudoObj)
    ELSE Let(m.heap[pseudoObj.v], LAMBDA o :
        IF isa(m, pseudoObj, REGEXP)
        THEN IF o.data = Null
             THEN Raise(m, HostErr("TypeError", Str("Cannot read properties of null")))
             ELSE Let(NewRegExp(m, m.host.natives[o.data.v]), LAMBDA m1 :
                      Ret([m1 EXCEPT !.host.natives[Len(m1.host.natives)].properties =
                                        m.host.natives[o.data.v].properties],
                          NewNative(m1)))
        ELSE IF isa(m, pseudoObj, DATE)
        THEN IF o.data = Null
             THEN Raise(m, HostErr("TypeError", Str("Cannot read properties of null")))
             ELSE Let(NewDate(m, o.data.v), LAMBDA d : Ret(d.m, d.v))
        ELSE IF IndexOf(cycles.pseudo, pseudoObj.v) # 0
        THEN Ret(m, NativeRef(cycles.native[IndexOf(cycles.pseudo, pseudoObj.v)]))
        ELSE IF isa(m, pseudoObj, ARRAY)
        THEN Let(Alloc(m, NativeObject("Array",
                              <<Prop("length", Num(0), TRUE, FALSE, FALSE)>>, Null)),
                 LAMBDA m1 :
                 Bind(getProperty(m1, pseudoObj, "length"), LAMBDA length :
                      pseudoToNativeItems_(length.m, pseudoObj, Len(m1.host.natives),
                          [pseudo |-> Append(cycles.pseudo, pseudoObj.v),
                           native |-> Append(cycles.native, Len(m1.host.natives))],
                          0, length.v)))
        ELSE Let(Alloc(m, NativeObject("Object", EmptyBag, Null)), LAMBDA m1 :
                 pseudoToNativeProps_(m1, pseudoObj.v, Len(m1.host.natives),
                     [pseudo |-> Append(cycles.pseudo, pseudoObj.v),
                      native |-> Append(cycles.native, Len(m1.host.natives))],
                     KeysOf(o.properties, LAMBDA p : p.e))))
pseudoToNativeItems_(m, pseudoObj, nativeObj, cycles, i, length) ==
    IF ~Below(i, length) THEN Ret(m, NativeRef(nativeObj))
    ELSE IF ~hasProperty(m, pseudoObj, NumStr(i))
    THEN pseudoToNativeItems_(m, pseudoObj, nativeObj, cycles, i + 1, length)
    ELSE Bind(getProperty(m, pseudoObj, NumStr(i)), LAMBDA g :
         Bind(pseudoToNative(g.m, g.v, cycles), LAMBDA r :
              pseudoToNativeItems_(
                  [r.m EXCEPT !.host.natives[nativeObj].properties =
                                 NativeArraySet(@, i, r.v)],
                  pseudoObj, nativeObj, cycles, i + 1, length)))
pseudoToNativeProps_(m, pseudoObj, nativeObj, cycles, keys) ==
    IF keys = << >> THEN Ret(m, NativeRef(nativeObj))
    ELSE Bind(pseudoToNative(m, Get(m.heap[pseudoObj].properties, Head(keys)), cycles),
              LAMBDA r :
              pseudoToNativeProps_(
                  [r.m EXCEPT !.host.natives[nativeObj].properties =
                                 HostDefine(@, Head(keys),
                                     [value |-> r.v, writable |-> TRUE,
                                      enumerable |-> TRUE, configurable |-> TRUE]).bag],
                  pseudoObj, nativeObj, cycles, Tail(keys)))

\* Values of the host, written as the host's literals: a primitive, an array
\* literal of items, an object literal of keys and vals, new Date(time),
\* and a RegExp with a source and a lastIndex.
Arr(items) == [t |-> "array", items |-> items]
Members(keys, vals) == [t |-> "members", keys |-> keys, vals |-> vals]
DateOf(time) == [t |-> "date", time |-> time]
RegExpOf(source, lastIndex) == [t |-> "regexp", source |-> source, lastIndex |-> lastIndex]

\* The property bag of an object literal, and of an array literal.
RECURSIVE MembersBag(_, _)
MembersBag(keys, vals) ==
    IF keys = << >> THEN EmptyBag
    ELSE HostSet(MembersBag(SubSeq(keys, 1, Len(keys) - 1), SubSeq(vals, 1, Len(vals) - 1)),
                 keys[Len(keys)], vals[Len(vals)]).bag
ItemsBag(vals) ==
    [i \in 1..Len(vals) |-> Prop(NumStr(i - 1), vals[i], TRUE, TRUE, TRUE)]
        \o <<Prop("length", Num(Len(vals)), TRUE, FALSE, FALSE)>>

\* The host evaluates literal j: v is its value, the objects are new.
RECURSIVE hostValue(_, _), hostValues_(_, _)
hostValue(m, j) ==
    CASE j.t = "array" ->
           Let(hostValues_(m, j.items), LAMBDA rs :
           Let(Alloc(rs.m, NativeObject("Array", ItemsBag(rs.vs), Null)), LAMBDA m1 :
               [m |-> m1, v |-> NewNative(m1)]))
      [] j.t = "members" ->
           Let(hostValues_(m, j.vals), LAMBDA rs :
           Let(Alloc(rs.m, NativeObject("Object", MembersBag(j.keys, rs.vs), Null)),
               LAMBDA m1 : [m |-> m1, v |-> NewNative(m1)]))
      [] j.t = "date" ->
           Let(Alloc(m, NativeObject("Date", EmptyBag, Num(j.time))), LAMBDA m1 :
               [m |-> m1, v |-> NewNative(m1)])
      [] j.t = "regexp" ->
           Let(Alloc(m, NativeObject("RegExp",
                         <<Prop("lastIndex", Num(j.lastIndex), TRUE, FALSE, FALSE)>>,
                         Str(j.source))), LAMBDA m1 :
               [m |-> m1, v |-> NewNative(m1)])
      [] OTHER -> [m |-> m, v |-> j]
hostValues_(m, js) ==
    IF js = << >> THEN [m |-> m, vs |-> << >>]
    ELSE Let(hostValue(m, Head(js)), LAMBDA r :
         Let(hostValues_(r.m, Tail(js)), LAMBDA rs :
             [m |-> rs.m, vs |-> <<r.v>> \o rs.vs]))

\* Deep equality of two values of the host, as the tests' toEqual: the same
\* primitive, or objects of the same class and data with the same keys and
\* deeply equal values.  fuel bounds the depth.
RECURSIVE DeepEqual(_, _, _, _)
DeepEqual(natives, a, b, fuel) ==
    IF ~IsNative(a) \/ ~IsNative(b) THEN a = b
    ELSE /\ fuel > 0
         /\ natives[a.v].class = natives[b.v].class
         /\ natives[a.v].data = natives[b.v].data
         /\ Keys(natives[a.v].properties) = Keys(natives[b.v].properties)
         /\ \A k \in Keys(natives[a.v].properties) :
              DeepEqual(natives, Get(natives[a.v].properties, k),
                        Get(natives[b.v].properties, k), fuel - 1)

\* The host objects that value v reaches, v's own included.
RECURSIVE ReachNative(_, _, _)
ReachNative(natives, ids, fuel) ==
    Let(ids \cup UNION {{natives[id].properties[i].v.v :
                             i \in {n \in DOMAIN natives[id].properties :
                                       IsNative(natives[id].properties[n].v)}} : id \in ids},
        LAMBDA more : IF more = ids \/ fuel = 0 THEN ids
                      ELSE ReachNative(natives, more, fuel - 1))
NativesOf(natives, v) == IF IsNative(v) THEN ReachNative(natives, {v.v}, Len(natives)) ELSE {}

----------------------------------------------------------------------------
(* The step handlers.  Each takes the interpreter whose top frame is the    *)
(* state being stepped; the v of its result is the id of the State it       *)
(* returns for step() to push, 0 when it returns nothing.                  *)

\* return new S8Interpreter.State(...): the object joins the frame store.
Spawn(m, state) == Ret([m EXCEPT !.frames = Append(@, state)], Len(m.frames) + 1)

\* this.createGetter_(func, left)
createGetter_(m, func, left) ==
    IF ~m.getterStep THEN Raise(m, HostErr("Error", Str("Unexpected call to createGetter")))
    ELSE Spawn([m EXCEPT !.getterStep = FALSE],
               [State([type |-> "CallExpression", end |-> 0], Top(m).scope) EXCEPT
                   !.doneCallee_ = 3, !.func_ = func, !.doneArgs_ = TRUE,
                   !.funcThis_ = IF IsRef(left) THEN left.base ELSE left])

\* this.createSetter_(func, left, value)
createSetter_(m, func, left, val) ==
    IF ~m.setterStep THEN Raise(m, HostErr("Error", Str("Unexpected call to createSetter")))
    ELSE Spawn([m EXCEPT !.setterStep = FALSE],
               [State([type |-> "CallExpression", end |-> 0], Top(m).scope) EXCEPT
                   !.doneCallee_ = 3, !.func_ = func, !.doneArgs_ = TRUE,
                   !.arguments_ = <<val>>,
                   !.funcThis_ = IF IsRef(left) THEN left.base ELSE Obj(GLOBAL)])

\* A stepProgram that pops the finished Program instead of marking it done.
stepProgramPops(m) ==
    LET s == TopId(m)
        body == Top(m).node.body
    IN  IF Len(body) > 0
        THEN Spawn([m EXCEPT !.frames[s].node.body = Tail(body),
                             !.frames[s].done = FALSE],
                   State(Head(body), Top(m).scope))
        ELSE Ret(Pop([m EXCEPT !.frames[s].done = TRUE]), 0)

stepProgram(m) ==
    LET s == TopId(m)
        body == Top(m).node.body
    IN  IF Len(body) > 0
        THEN Spawn([m EXCEPT !.frames[s].node.body = Tail(body),
                             !.frames[s].done = FALSE],
                   State(Head(body), Top(m).scope))
        ELSE Ret([m EXCEPT !.frames[s].done = TRUE], 0)

stepExpressionStatement(m) ==
    LET s == TopId(m)
        state == Top(m)
    IN  IF ~state.done_
        THEN Spawn([m EXCEPT !.frames[s].done_ = TRUE],
                   State(state.node.expression, state.scope))
        ELSE Ret([Pop(m) EXCEPT !.value = state.value], 0)

\* A RegExp literal is a node whose value is a RegExp of the host.
stepLiteral(m) ==
    Let(Top(m).node.value, LAMBDA val :
    Let(Pop(m), LAMBDA m1 :
        IF val.t = "regexp"
        THEN Let(createObjectProto(m1, REGEXP_PROTO), LAMBDA m2 :
                 Bind(populateRegExp(m2, New_(m2),
                          NativeObject("RegExp",
                              <<Prop("lastIndex", Num(val.lastIndex), TRUE, FALSE, FALSE)>>,
                              Str(val.source))), LAMBDA r :
                      Ret(SetTopValue(r.m, Obj(New_(m2))), 0)))
        ELSE Ret(SetTopValue(m1, val), 0)))

stepIdentifier(m) ==
    LET state == Top(m)
        m1 == Pop(m)
    IN  IF state.components
        THEN Ret(SetTopValue(m1, Ref(SCOPE_REFERENCE, state.node.name)), 0)
        ELSE Bind(getValueFromScope(m1, state.node.name), LAMBDA r :
                 IF r.m.getterStep
                 THEN \* this.hasProperty(scope, ...) is handed a Scope
                      Raise(r.m, HostErr("TypeError",
                                         Str("Primitive data type has no properties")))
                 ELSE Ret(SetTopValue(r.m, r.v), 0))

stepFunctionExpression(m) ==
    LET m1 == createFunction(Pop(m), Top(m).node, Top(m).scope)
    IN  Ret(SetTopValue(m1, Obj(New_(m1) - 1)), 0)

stepBlockStatement(m) ==
    LET s == TopId(m)
        state == Top(m)
    IN  IF state.n_ < Len(state.node.body)
        THEN Spawn([m EXCEPT !.frames[s].n_ = state.n_ + 1],
                   State(state.node.body[state.n_ + 1], state.scope))
        ELSE Ret(Pop(m), 0)

\* A ReturnStatement handler that unwinds without the value of its argument.
stepReturnStatementNoValue(m) ==
    LET s == TopId(m)
        state == Top(m)
    IN  IF IsNode(state.node.argument) /\ ~state.done_
        THEN Spawn([m EXCEPT !.frames[s].done_ = TRUE],
                   State(state.node.argument, state.scope))
        ELSE Bind(unwind(m, RETURN, Undef, ""), LAMBDA r : Ret(r.m, 0))

stepReturnStatement(m) ==
    LET s == TopId(m)
        state == Top(m)
    IN  IF IsNode(state.node.argument) /\ ~state.done_
        THEN Spawn([m EXCEPT !.frames[s].done_ = TRUE],
                   State(state.node.argument, state.scope))
        ELSE Bind(unwind(m, RETURN, state.value, ""), LAMBDA r : Ret(r.m, 0))

\* The declaration was handled when the scope was populated.
stepFunctionDeclaration(m) == Ret(Pop(m), 0)

stepVariableDeclaration(m) ==
    LET s == TopId(m)
        state == Top(m)
        declarations == state.node.declarations
        n == state.n_
        \* the declaration whose init value has arrived is set and passed
        set == IF state.init_ /\ n < Len(declarations)
               THEN Bind(setValueToScope(m, declarations[n + 1].id.name, state.value),
                         LAMBDA r : Ret([r.m EXCEPT !.frames[s].init_ = FALSE], n + 1))
               ELSE Ret(m, n)
        \* the first declaration from n on that has an init, or none
        RECURSIVE next(_)
        next(i) == IF i >= Len(declarations) THEN i
                   ELSE IF IsNode(declarations[i + 1].init) THEN i
                   ELSE next(i + 1)
    IN  Bind(set, LAMBDA r :
             IF next(r.v) < Len(declarations)
             THEN Spawn([r.m EXCEPT !.frames[s].n_ = next(r.v), !.frames[s].init_ = TRUE],
                        State(declarations[next(r.v) + 1].init, state.scope))
             ELSE Ret(Pop(r.m), 0))

stepThrowStatement(m) ==
    LET s == TopId(m)
        state == Top(m)
    IN  IF ~state.done_
        THEN Spawn([m EXCEPT !.frames[s].done_ = TRUE],
                   State(state.node.argument, state.scope))
        ELSE throwValue(m, state.value)

\* A TryStatement handler that hands the throw to its catch clause and keeps
\* the completion it holds.
stepTryStatementKeepsCv(m) ==
    LET s == TopId(m)
        state == Top(m)
        node == state.node
    IN  IF ~state.doneBlock_
        THEN Spawn([m EXCEPT !.frames[s].doneBlock_ = TRUE], State(node.block, state.scope))
        ELSE IF state.cv.type = THROW /\ ~state.doneHandler_ /\ IsNode(node.handler)
        THEN Spawn([m EXCEPT !.frames[s].doneHandler_ = TRUE],
                   [State(node.handler, state.scope) EXCEPT !.throwValue = state.cv.value])
        ELSE IF ~state.doneFinalizer_ /\ IsNode(node.finalizer)
        THEN Spawn([m EXCEPT !.frames[s].doneFinalizer_ = TRUE],
                   State(node.finalizer, state.scope))
        ELSE IF state.cv # NoCv
        THEN Bind(unwind(Pop(m), state.cv.type, state.cv.value, state.cv.label),
                  LAMBDA r : Ret(r.m, 0))
        ELSE Ret(Pop(m), 0)

stepTryStatement(m) ==
    LET s == TopId(m)
        state == Top(m)
        node == state.node
    IN  IF ~state.doneBlock_
        THEN Spawn([m EXCEPT !.frames[s].doneBlock_ = TRUE], State(node.block, state.scope))
        ELSE IF state.cv.type = THROW /\ ~state.doneHandler_ /\ IsNode(node.handler)
        THEN Spawn([m EXCEPT !.frames[s].doneHandler_ = TRUE, !.frames[s].cv = NoCv],
                   [State(node.handler, state.scope) EXCEPT !.throwValue = state.cv.value])
        ELSE IF ~state.doneFinalizer_ /\ IsNode(node.finalizer)
        THEN Spawn([m EXCEPT !.frames[s].doneFinalizer_ = TRUE],
                   State(node.finalizer, state.scope))
        ELSE IF state.cv # NoCv
        THEN Bind(unwind(Pop(m), state.cv.type, state.cv.value, state.cv.label),
                  LAMBDA r : Ret(r.m, 0))
        ELSE Ret(Pop(m), 0)

stepBreakStatement(m) ==
    LET label == IF IsNode(Top(m).node.label) THEN Top(m).node.label.name ELSE ""
    IN  Bind(unwind(m, BREAK, Undef, label), LAMBDA r : Ret(r.m, 0))

stepContinueStatement(m) ==
    LET label == IF IsNode(Top(m).node.label) THEN Top(m).node.label.name ELSE ""
    IN  Bind(unwind(m, CONTINUE, Undef, label), LAMBDA r : Ret(r.m, 0))

\* "No need to hit this node again on the way back up the stack."
stepLabeledStatement(m) ==
    LET state == Top(m)
        labels == Append(state.labels, state.node.label.name)
    IN  Spawn(Pop(m), [State(state.node.body, state.scope) EXCEPT !.labels = labels])

\* stepIfStatement = stepConditionalExpression
stepConditionalExpression(m) ==
    LET s == TopId(m)
        state == Top(m)
        node == state.node
        test == Truthy(state.value)
        leave(m1) ==
            IF node.type = "ConditionalExpression"
            THEN Ret(SetTopValue(Pop(m1), state.value), 0)
            ELSE Ret(Pop(m1), 0)
    IN  IF state.mode_ = 0
        THEN Spawn([m EXCEPT !.frames[s].mode_ = 1], State(node.test, state.scope))
        ELSE IF state.mode_ = 1
        THEN IF test /\ IsNode(node.consequent)
             THEN Spawn([m EXCEPT !.frames[s].mode_ = 2],
                        State(node.consequent, state.scope))
             ELSE IF ~test /\ IsNode(node.alternate)
             THEN Spawn([m EXCEPT !.frames[s].mode_ = 2],
                        State(node.alternate, state.scope))
             ELSE leave([m EXCEPT !.frames[s].mode_ = 2, !.value = Undef])
        ELSE leave(m)

\* stepWhileStatement = stepDoWhileStatement.  test_ is 0 while undefined,
\* 1 for true and -1 for false.
stepDoWhileStatement(m) ==
    LET s == TopId(m)
        node == Top(m).node
        first == node.type = "DoWhileStatement" /\ Top(m).test_ = 0
        \* "First iteration of do/while executes without checking test."
        m1 == IF first
              THEN [m EXCEPT !.frames[s].value = Bool(TRUE), !.frames[s].test_ = 1]
              ELSE m
        state == Top(m1)
    IN  IF state.test_ # 1
        THEN Spawn([m1 EXCEPT !.frames[s].test_ = 1], State(node.test, state.scope))
        ELSE IF ~Truthy(state.value)
        THEN Ret(Pop(m1), 0)
        ELSE IF IsNode(node.body)
        THEN Spawn([m1 EXCEPT !.frames[s].test_ = -1, !.frames[s].isLoop = TRUE],
                   State(node.body, state.scope))
        ELSE Ret(m1, 0)

stepForStatement(m) ==
    LET s == TopId(m)
        state == Top(m)
        node == state.node
        to(mode) == [m EXCEPT !.frames[s].mode_ = mode]
    IN  CASE state.mode_ = 0 ->
               IF IsNode(node.init) THEN Spawn(to(1), State(node.init, state.scope))
               ELSE Ret(to(1), 0)
          [] state.mode_ = 1 ->
               IF IsNode(node.test) THEN Spawn(to(2), State(node.test, state.scope))
               ELSE Ret(to(2), 0)
          [] state.mode_ = 2 ->
               IF IsNode(node.test) /\ ~Truthy(state.value)
               THEN Ret(Pop(to(3)), 0)
               ELSE Spawn([to(3) EXCEPT !.frames[s].isLoop = TRUE],
                          State(node.body, state.scope))
          [] state.mode_ = 3 ->
               IF IsNode(node.update) THEN Spawn(to(1), State(node.update, state.scope))
               ELSE Ret(to(1), 0)

\* The while (true) loop of stepSwitchStatement, from the state st of the
\* SwitchStatement: the state it leaves and what it returns (a node to run,
\* or none after stack.pop()).
\* A loop that takes the default clause where it finds it.
RECURSIVE switchLoopTakesDefault(_)
switchLoopTakesDefault(st) ==
    LET index == st.index_
        cases == st.node.cases
        here == index < Len(cases)
        switchCase == IF here THEN cases[index + 1] ELSE [test |-> NoNode, consequent |-> << >>]
        \* state.value === state.switchValue_
        same == st.value = st.switchValue_ /\ st.value # NaN
    IN  IF ~st.matched_ /\ here /\ ~IsNode(switchCase.test)
        THEN switchLoopTakesDefault([st EXCEPT !.matched_ = TRUE])
        ELSE IF ~here /\ ~st.matched_ /\ st.defaultCase_ # -1
        THEN \* "Ran through all cases, no match.  Jump to the default."
             switchLoopTakesDefault([st EXCEPT !.matched_ = TRUE, !.index_ = st.defaultCase_])
        ELSE IF ~here
        THEN [state |-> st, next |-> NoNode, pop |-> TRUE]
        ELSE IF ~st.matched_ /\ ~st.tested_ /\ IsNode(switchCase.test)
        THEN [state |-> [st EXCEPT !.tested_ = TRUE], next |-> switchCase.test,
              pop |-> FALSE]
        ELSE IF (st.matched_ \/ same)
                 /\ st.n_ < Len(switchCase.consequent)
        THEN [state |-> [st EXCEPT !.matched_ = TRUE, !.isSwitch = TRUE, !.n_ = st.n_ + 1],
              next |-> switchCase.consequent[st.n_ + 1], pop |-> FALSE]
        ELSE \* "Move on to next case."
             switchLoopTakesDefault([st EXCEPT !.matched_ = @ \/ same,
                                   !.tested_ = FALSE, !.n_ = 0, !.index_ = index + 1])

\* test_ is 0 while undefined, then 1 and 2.
RECURSIVE switchLoop(_)
switchLoop(st) ==
    LET index == st.index_
        cases == st.node.cases
        here == index < Len(cases)
        switchCase == IF here THEN cases[index + 1] ELSE [test |-> NoNode, consequent |-> << >>]
        \* state.value === state.switchValue_
        same == st.value = st.switchValue_ /\ st.value # NaN
    IN  IF ~st.matched_ /\ here /\ ~IsNode(switchCase.test)
        THEN \* "Bypass (but store) the default case, and get back to it later."
             switchLoop([st EXCEPT !.defaultCase_ = index, !.index_ = index + 1])
        ELSE IF ~here /\ ~st.matched_ /\ st.defaultCase_ # -1
        THEN \* "Ran through all cases, no match.  Jump to the default."
             switchLoop([st EXCEPT !.matched_ = TRUE, !.index_ = st.defaultCase_])
        ELSE IF ~here
        THEN [state |-> st, next |-> NoNode, pop |-> TRUE]
        ELSE IF ~st.matched_ /\ ~st.tested_ /\ IsNode(switchCase.test)
        THEN [state |-> [st EXCEPT !.tested_ = TRUE], next |-> switchCase.test,
              pop |-> FALSE]
        ELSE IF (st.matched_ \/ same)
                 /\ st.n_ < Len(switchCase.consequent)
        THEN [state |-> [st EXCEPT !.matched_ = TRUE, !.isSwitch = TRUE, !.n_ = st.n_ + 1],
              next |-> switchCase.consequent[st.n_ + 1], pop |-> FALSE]
        ELSE \* "Move on to next case."
             switchLoop([st EXCEPT !.matched_ = @ \/ same,
                                   !.tested_ = FALSE, !.n_ = 0, !.index_ = index + 1])

\* test_ is 0 while undefined, then 1 and 2.
stepSwitchStatement(m) ==
    LET s == TopId(m)
        state == Top(m)
    IN  IF state.test_ = 0
        THEN Spawn([m EXCEPT !.frames[s].test_ = 1],
                   State(state.node.discriminant, state.scope))
        ELSE Let(switchLoop(IF state.test_ = 1
                            THEN [state EXCEPT !.test_ = 2, !.switchValue_ = state.value,
                                               !.defaultCase_ = -1]
                            ELSE state), LAMBDA l :
                 IF l.pop THEN Ret(Pop([m EXCEPT !.frames[s] = l.state]), 0)
                 ELSE Spawn([m EXCEPT !.frames[s] = l.state],
                            State(l.next, state.scope)))

\* typeof value, for the values of the interpreter
TypeOf(m, val) ==
    CASE val.t = "object" -> IF m.heap[val.v].class = "Function" THEN "function" ELSE "object"
      [] val.t \in {"NaN", "fraction"} -> "number"
      [] val.t = "null" -> "object"
      [] OTHER -> val.t

stepUnaryExpression(m) ==
    LET s == TopId(m)
        state == Top(m)
        node == state.node
        val == state.value
        m1 == Pop(m)
        cannotDelete(obj) ==
            IF m.scopes[state.scope].strict
            THEN throwException(m1, TYPE_ERROR,
                     "Cannot delete property '" \o val.name \o "' of '" \o obj \o "'")
            ELSE Ret(SetTopValue(m1, Bool(FALSE)), 0)
    IN  IF ~state.done_
        THEN Spawn([m EXCEPT !.frames[s].done_ = TRUE],
                   [State(node.argument, state.scope) EXCEPT
                       !.components = (node.operator = "delete")])
        ELSE CASE node.operator = "-" ->
                    Let(ToNumber(val), LAMBDA n :
                        Ret(SetTopValue(m1, IF n.t = "number" THEN Num(0 - n.v) ELSE n), 0))
               [] node.operator = "+" -> Ret(SetTopValue(m1, ToNumber(val)), 0)
               [] node.operator = "!" -> Ret(SetTopValue(m1, Bool(~Truthy(val))), 0)
               [] node.operator = "delete" ->
                    IF ~IsRef(val) THEN Ret(SetTopValue(m1, Bool(TRUE)), 0)
                    ELSE IF val.base = SCOPE_REFERENCE
                    THEN \* obj = state.scope, which has no properties
                         cannotDelete("[object Object]")
                    ELSE IF ~IsObj(val.base) THEN cannotDelete(String(m, val.base))
                    ELSE Let(HostDelete(m.heap[val.base.v].properties, val.name),
                             LAMBDA deleted :
                             IF deleted.ok
                             THEN Ret(SetTopValue([m1 EXCEPT !.heap[val.base.v].properties =
                                                      deleted.bag], Bool(TRUE)), 0)
                             ELSE cannotDelete(String(m, val.base)))
               [] node.operator = "typeof" -> Ret(SetTopValue(m1, Str(TypeOf(m, val))), 0)
               [] node.operator = "void" -> Ret(SetTopValue(m1, Undef), 0)
               [] OTHER ->
                    Raise(m1, HostErr("SyntaxError", Str("Unknown unary operator: "
                                                          \o node.operator)))

\* node is `with (object) body`.
stepWithStatement(m) ==
    LET s == TopId(m)
        state == Top(m)
    IN  IF ~state.doneObject_
        THEN Spawn([m EXCEPT !.frames[s].doneObject_ = TRUE],
                   State(state.node.object, state.scope))
        ELSE IF ~state.doneBody_
        THEN Let(createSpecialScope([m EXCEPT !.frames[s].doneBody_ = TRUE],
                                    state.scope, state.value), LAMBDA m1 :
                 Spawn(m1, State(state.node.body, Len(m1.scopes))))
        ELSE Ret(Pop(m), 0)

stepCatchClause(m) ==
    Let(Top(m), LAMBDA state :
        IF ~state.done_
        THEN Let(createSpecialScope([m EXCEPT !.frames[TopId(m)].done_ = TRUE],
                                    state.scope, Undef), LAMBDA m1 :
             Let(Len(m1.scopes), LAMBDA scope :
                 Bind(setProperty(m1, Obj(m1.scopes[scope].object),
                                  state.node.param.name, state.throwValue, NoDescriptor),
                      LAMBDA r : Spawn(r.m, State(state.node.body, scope)))))
        ELSE Ret(Pop(m), 0))

stepMemberExpression(m) ==
    LET s == TopId(m)
        state == Top(m)
        node == state.node
        finish(object_, propName) ==
            LET m1 == Pop(m)
            IN  IF state.components THEN Ret(SetTopValue(m1, Ref(object_, propName)), 0)
                ELSE Bind(getProperty(m1, object_, propName), LAMBDA r :
                         IF r.m.getterStep THEN createGetter_(r.m, r.v, object_)
                         ELSE Ret(SetTopValue(r.m, r.v), 0))
    IN  IF ~state.doneObject_
        THEN Spawn([m EXCEPT !.frames[s].doneObject_ = TRUE],
                   State(node.object, state.scope))
        ELSE IF ~node.computed THEN finish(state.value, node.property.name)
        ELSE IF ~state.doneProperty_
        THEN Spawn([m EXCEPT !.frames[s].object_ = state.value,
                             !.frames[s].doneProperty_ = TRUE],
                   State(node.property, state.scope))
        ELSE finish(state.object_, String(m, state.value))

\* leftValue + rightValue, leftValue - rightValue, leftValue === rightValue
BinaryOp(m, operator, l, r) ==
    Let(ToNumber(l), LAMBDA nl :
    Let(ToNumber(r), LAMBDA nr :
    Let(nl.t = "number" /\ nr.t = "number", LAMBDA numbers :
        CASE operator = "===" -> Bool(l = r /\ l # NaN)
          [] operator = "-" -> IF numbers THEN Num(nl.v - nr.v) ELSE NaN
          [] operator = "*" -> IF numbers THEN Num(nl.v * nr.v) ELSE NaN
          [] operator = "+" ->
                IF l.t \in {"string", "object"} \/ r.t \in {"string", "object"}
                THEN Str(String(m, l) \o String(m, r))
                ELSE IF numbers THEN Num(nl.v + nr.v) ELSE NaN)))

stepBinaryExpression(m) ==
    LET s == TopId(m)
        state == Top(m)
        node == state.node
    IN  IF ~state.doneLeft_
        THEN Spawn([m EXCEPT !.frames[s].doneLeft_ = TRUE], State(node.left, state.scope))
        ELSE IF ~state.doneRight_
        THEN Spawn([m EXCEPT !.frames[s].doneRight_ = TRUE,
                             !.frames[s].leftValue_ = state.value],
                   State(node.right, state.scope))
        ELSE IF node.operator \in {"+", "-", "*", "==="}
        THEN Ret(SetTopValue(Pop(m),
                             BinaryOp(m, node.operator, state.leftValue_, state.value)), 0)
        ELSE Raise(Pop(m), HostErr("SyntaxError", Str("Unknown binary operator")))

\* A stepAssignmentExpression that yields what the setter returned.
stepAssignmentExpressionSetterValue(m) ==
    LET s == TopId(m)
        state == Top(m)
        node == state.node
        right(mm) == Spawn([mm EXCEPT !.frames[s].doneRight_ = TRUE],
                           State(node.right, state.scope))
    IN  IF ~state.doneLeft_
        THEN Spawn([m EXCEPT !.frames[s].doneLeft_ = TRUE],
                   [State(node.left, state.scope) EXCEPT !.components = TRUE])
        ELSE IF ~state.doneRight_
        THEN \* the first visit after the left side was evaluated
             Let(IF Truthy(state.leftReference_) THEN state.leftReference_
                 ELSE state.value, LAMBDA leftReference_ :
             Let([m EXCEPT !.frames[s].leftReference_ = leftReference_,
                           !.frames[s].leftValue_ =
                               IF state.doneGetter_ THEN state.value ELSE @], LAMBDA m1 :
                 IF ~state.doneGetter_ /\ node.operator # "="
                 THEN Bind(getValue(m1, leftReference_), LAMBDA r :
                        Let([r.m EXCEPT !.frames[s].leftValue_ = r.v], LAMBDA m2 :
                            IF m2.getterStep
                            THEN createGetter_([m2 EXCEPT !.frames[s].doneGetter_ = TRUE],
                                               r.v, leftReference_)
                            ELSE right(m2)))
                 ELSE right(m1)))
        ELSE IF state.doneSetter_
        THEN Ret(SetTopValue(Pop(m), state.value), 0)
        ELSE IF node.operator \notin {"=", "+="}
        THEN Raise(m, HostErr("SyntaxError", Str("Unknown assignment expression")))
        ELSE Let(IF node.operator = "=" THEN state.value
                 ELSE BinaryOp(m, "+", state.leftValue_, state.value), LAMBDA val :
             Bind(setValue(m, state.leftReference_, val), LAMBDA r :
                 IF r.m.setterStep
                 THEN createSetter_([r.m EXCEPT !.frames[s].doneSetter_ = TRUE,
                                                !.frames[s].setterValue_ = val],
                                    r.v, state.leftReference_, val)
                 ELSE Ret(SetTopValue(Pop(r.m), val), 0)))


stepAssignmentExpression(m) ==
    LET s == TopId(m)
        state == Top(m)
        node == state.node
        right(mm) == Spawn([mm EXCEPT !.frames[s].doneRight_ = TRUE],
                           State(node.right, state.scope))
    IN  IF ~state.doneLeft_
        THEN Spawn([m EXCEPT !.frames[s].doneLeft_ = TRUE],
                   [State(node.left, state.scope) EXCEPT !.components = TRUE])
        ELSE IF ~state.doneRight_
        THEN \* the first visit after the left side was evaluated
             Let(IF Truthy(state.leftReference_) THEN state.leftReference_
                 ELSE state.value, LAMBDA leftReference_ :
             Let([m EXCEPT !.frames[s].leftReference_ = leftReference_,
                           !.frames[s].leftValue_ =
                               IF state.doneGetter_ THEN state.value ELSE @], LAMBDA m1 :
                 IF ~state.doneGetter_ /\ node.operator # "="
                 THEN Bind(getValue(m1, leftReference_), LAMBDA r :
                        Let([r.m EXCEPT !.frames[s].leftValue_ = r.v], LAMBDA m2 :
                            IF m2.getterStep
                            THEN createGetter_([m2 EXCEPT !.frames[s].doneGetter_ = TRUE],
                                               r.v, leftReference_)
                            ELSE right(m2)))
                 ELSE right(m1)))
        ELSE IF state.doneSetter_
        THEN Ret(SetTopValue(Pop(m), state.setterValue_), 0)
        ELSE IF node.operator \notin {"=", "+="}
        THEN Raise(m, HostErr("SyntaxError", Str("Unknown assignment expression")))
        ELSE Let(IF node.operator = "=" THEN state.value
                 ELSE BinaryOp(m, "+", state.leftValue_, state.value), LAMBDA val :
             Bind(setValue(m, state.leftReference_, val), LAMBDA r :
                 IF r.m.setterStep
                 THEN createSetter_([r.m EXCEPT !.frames[s].doneSetter_ = TRUE,
                                                !.frames[s].setterValue_ = val],
                                    r.v, state.leftReference_, val)
                 ELSE Ret(SetTopValue(Pop(r.m), val), 0)))

----------------------------------------------------------------------------
(* The host's native functions, known to the model by name.                *)

\* interpreter.queueFunction(func, funcThis): a call frame for func, made
\* as createGetter_ makes the frame of a getter, is pushed on the stack.
queueFunction(m, func, funcThis) ==
    [m EXCEPT !.frames =
                  Append(@, [State([type |-> "CallExpression", end |-> 0], GLOBAL_SCOPE)
                                EXCEPT !.doneCallee_ = 3, !.func_ = func,
                                       !.doneArgs_ = TRUE, !.funcThis_ = funcThis]),
              !.stack = Append(@, Len(m.frames) + 1)]

\* A defer that queues the function at once, without a timer.
deferQueuesAtOnce(m, f) == Ret(queueFunction(m, f, Undef), Undef)

\* The native `defer` of the test's initFunction: setTimeout(() => {...}, 100).
\* The timer is kept in host.timers with the number of timers that had
\* fired when it was set.
defer(m, f) ==
    Ret([m EXCEPT !.host.timers = Append(@, [func |-> f, by |-> Len(m.host.fired)])],
        Undef)

\* What the native function named nativeFunc does and returns.
Native(m, nativeFunc, funcThis, arguments) ==
    LET arg == IF Len(arguments) > 0 THEN arguments[1] ELSE Undef
        \* the constructors of initError and createErrorSubclass
        constructor == CASE nativeFunc = "Error" -> ERROR
                         [] nativeFunc = "RangeError" -> RANGE_ERROR
                         [] nativeFunc = "ReferenceError" -> REFERENCE_ERROR
                         [] OTHER -> TYPE_ERROR
    IN  CASE nativeFunc = "setVal" -> Ret([m EXCEPT !.host.val = arg], Undef)
          [] nativeFunc = "getVal" -> Ret(m, m.host.val)
          [] nativeFunc = "require" ->
                \* the natives of the test's initFunction, by package name
                IF arg \in {Str("doer"), Str("get"), Str("log"), Str("defer"), Str("fail")}
                THEN Ret(createNativeFunction(m, arg.v,
                             IF arg.v \in {"log", "defer"} THEN 1 ELSE 0, FALSE),
                         Obj(Fresh(m)))
                ELSE Ret(m, Undef)
          [] nativeFunc = "doer" ->
                Ret(createNativeFunction(m, "bla", 0, FALSE), Obj(Fresh(m)))
          [] nativeFunc = "bla" -> Ret([m EXCEPT !.host.res = @ \o "bla"], Undef)
          [] nativeFunc = "get" -> nativeToPseudo(m, Str("hi"))
          \* a native of the host that throws an Error of the host
          [] nativeFunc = "fail" -> Raise(m, HostErr("Error", Str("host failure")))
          [] nativeFunc = "log" -> Ret([m EXCEPT !.host.res = @ \o String(m, arg)], Undef)
          [] nativeFunc = "defer" -> defer(m, arg)
          [] nativeFunc = "Array" ->
                \* the Array constructor of initArray
                Let(IF Top(m).isConstructor THEN m ELSE createArray(m), LAMBDA made :
                Let(IF Top(m).isConstructor THEN funcThis.v ELSE New_(made),
                    LAMBDA newArray :
                    IF Len(arguments) = 1 /\ IsNumber(arg)
                    THEN IF legalArrayLength(arg) = NotAnIndex
                         THEN throwException(made, RANGE_ERROR, "Invalid array length")
                         ELSE Ret([made EXCEPT !.heap[newArray].properties =
                                       HostSet(@, "length", arg).bag], Obj(newArray))
                    ELSE LET Filled[i \in 0..Len(arguments)] ==
                                 IF i = 0 THEN made.heap[newArray].properties
                                 ELSE HostSet(Filled[i - 1], NumStr(i - 1),
                                              arguments[i]).bag
                         IN  Ret([made EXCEPT !.heap[newArray].properties =
                                      HostSet(Filled[Len(arguments)], "length",
                                              Num(Len(arguments))).bag], Obj(newArray))))
          [] OTHER ->
                Bind(IF Top(m).isConstructor THEN Ret(m, funcThis)
                     ELSE createObject(m, constructor), LAMBDA r :
                    IF Truthy(arg)
                    THEN Bind(setProperty(r.m, r.v, "message", Str(String(m, arg)),
                                          NONENUMERABLE_DESCRIPTOR),
                              LAMBDA r1 : Ret(r1.m, r.v))
                    ELSE r)

\* ToLength of the host, for the `length` of an array-like object.
HostToLength(v) ==
    Let(ToNumber(v), LAMBDA n :
        IF n.t = "number" /\ n.v > 0 THEN n.v ELSE IF n.t = "fraction" THEN 1 ELSE 0)

\* Array.prototype.push.apply(this.properties, arguments), the wrapper that
\* initArray installs as push: the host's generic push on the property bag.
\* The host throws TypeError where a property is read-only.
arrayPush(m, this, arguments) ==
    LET bag == m.heap[this.v].properties
        len == HostToLength(Get(bag, "length"))
        Pushed[i \in 0..Len(arguments)] ==
            IF i = 0 THEN [ok |-> TRUE, bag |-> bag]
            ELSE IF ~Pushed[i - 1].ok THEN Pushed[i - 1]
            ELSE HostSet(Pushed[i - 1].bag, NumStr(len + i - 1), arguments[i])
    IN  Let(Pushed[Len(arguments)], LAMBDA pushed :
        Let(IF pushed.ok THEN HostSet(pushed.bag, "length", Num(len + Len(arguments)))
            ELSE pushed, LAMBDA set :
        Let([m EXCEPT !.heap[this.v].properties = set.bag], LAMBDA m1 :
            IF set.ok THEN Ret(m1, Num(len + Len(arguments)))
            ELSE Raise(m1, HostErr("TypeError", Str("Cannot assign to read only property"))))))

\* Array.prototype.pop.call(this.properties), the wrapper installed as pop.
arrayPop(m, this) ==
    LET bag == m.heap[this.v].properties
        len == HostToLength(Get(bag, "length"))
        index == NumStr(len - 1)
    IN  Let(IF len = 0 THEN [ok |-> TRUE, bag |-> bag] ELSE HostDelete(bag, index),
            LAMBDA deleted :
        Let(IF deleted.ok
            THEN HostSet(deleted.bag, "length", Num(IF len = 0 THEN 0 ELSE len - 1))
            ELSE deleted, LAMBDA set :
        Let([m EXCEPT !.heap[this.v].properties = set.bag], LAMBDA m1 :
            IF set.ok THEN Ret(m1, IF len = 0 THEN Undef ELSE Get(bag, index))
            ELSE Raise(m1, HostErr("TypeError", Str("Cannot delete property"))))))

\* The wrapper that initObject installs as Object.defineProperty; descriptor
\* is the property bag of the guest's descriptor object, read as a record.
defineProperty(m, obj, prop, descriptor) ==
    IF ~IsObj(obj)
    THEN throwException(m, TYPE_ERROR, "Object.defineProperty called on non-object")
    ELSE IF ~Truthy(Get(m.heap[obj.v].properties, prop)) /\ m.heap[obj.v].preventExtensions
    THEN throwException(m, TYPE_ERROR,
             "Can't define property '" \o prop \o "', object is not extensible")
    ELSE Bind(setProperty(m, obj, prop, VALUE_IN_DESCRIPTOR, descriptor),
              LAMBDA r : Ret(r.m, obj))

\* The wrapper installed as Object.preventExtensions.
preventExtensions(m, obj) ==
    IF IsObj(obj) THEN Ret([m EXCEPT !.heap[obj.v].preventExtensions = TRUE], obj)
    ELSE Ret(m, obj)

\* A call of a native that hands what the native throws to the guest.
NativeApplyTrapped(m, nativeFunc, funcThis, arguments) ==
    Let(Native(m, nativeFunc, funcThis, arguments), LAMBDA r :
    Let([r EXCEPT !.m.host.calls =
            Append(@, [fn |-> nativeFunc, args |-> arguments, ret |-> r.v])], LAMBDA r1 :
        IF r1.exc = "host" THEN throwException(r1.m, ERROR, "host failure") ELSE r1))

\* nativeFunc.apply(funcThis, arguments): the host records the call and what
\* it returned.
NativeApply(m, nativeFunc, funcThis, arguments) ==
    Let(Native(m, nativeFunc, funcThis, arguments), LAMBDA r :
        [r EXCEPT !.m.host.calls =
            Append(@, [fn |-> nativeFunc, args |-> arguments, ret |-> r.v])])

\* asyncFunc.apply(funcThis, argsWithCallback): the host keeps the callback,
\* which is the closure over the call's State, to invoke it later.
AsyncApply(m, asyncFunc, funcThis, arguments, state) ==
    [m EXCEPT !.host.calls =
                  Append(@, [fn |-> asyncFunc, args |-> arguments, ret |-> Undef]),
              !.host.cbs = Append(@, state)]

\* A callback that resumes the interpreter and drops the value it is given.
callbackDropsValue(m, state, val) == [m EXCEPT !.paused = FALSE]

\* The callback of stepCallExpression's asyncFunc branch.
callback(m, state, val) == [m EXCEPT !.frames[state].value = val, !.paused = FALSE]

\* matchToPseudo(match) of the exec wrapper for the match of /a+/ in "aac":
\* arrayNativeToPseudo and the properties index and input.
matchToPseudo(m) ==
    Let(createArray(m), LAMBDA m1 :
        Ret(Put(Put(Put(m1, New_(m1), "0", Str("aa"), NoDescriptor),
                    New_(m1), "index", Num(0), NoDescriptor),
                New_(m1), "input", Str("aac"), NoDescriptor), Obj(New_(m1))))

\* 'RegExp Timeout: ' + nativeRegExp
RegExpTimeoutMessage(nativeRegExp) == "RegExp Timeout: /" \o nativeRegExp.data.v \o "/"

\* vmCall's catch and the function regExpTimeout hands to setTimeout, up to
\* their throwException: callback(null) for the call of state, whose time-out
\* is entered in host.timedOut.
timeout(m, state, nativeRegExp) ==
    throwException([callback(m, state, Null) EXCEPT !.host.timedOut = Append(@, state)],
                   ERROR, RegExpTimeoutMessage(nativeRegExp))

\* A maybeThrowRegExp that never loads Node's vm module.
maybeThrowRegExpLoadsNothing(m, state, nativeRegExp) ==
    Let(Access(m, "S8Interpreter.vm", FALSE), LAMBDA m1 :
        IF m1.host.vm \/ m1.host.Worker THEN Ret(m1, TRUE)
        ELSE throwException(callback(m1, state, Null), ERROR,
                 "Regular expressions not supported: /" \o nativeRegExp.data.v \o "/"))

\* this.maybeThrowRegExp(nativeRegExp, callback) with REGEXP_MODE 2.
\* host.vm: S8Interpreter.vm holds Node's vm module; host.Worker: typeof
\* Worker and typeof URL are 'function'; host.require: require('vm') gives
\* the module.
maybeThrowRegExp(m, state, nativeRegExp) ==
    Let(Access(m, "S8Interpreter.vm", FALSE), LAMBDA m1 :
        IF m1.host.vm THEN Ret(m1, TRUE)
        ELSE IF m1.host.Worker THEN Ret(m1, TRUE)
        ELSE IF m1.host.require
        THEN Ret(Access([m1 EXCEPT !.host.vm = TRUE], "S8Interpreter.vm", TRUE), TRUE)
        ELSE throwException(callback(m1, state, Null), ERROR,
                 "Regular expressions not supported: /" \o nativeRegExp.data.v \o "/"))

\* this.createWorker(): the blob of the worker's code is made once and kept
\* in createWorker.blob_.
createWorker(m) ==
    Let(Access(m, "createWorker.blob_", FALSE), LAMBDA m1 :
        IF m1.host.blob_ THEN m1
        ELSE Access([m1 EXCEPT !.host.blob_ = TRUE], "createWorker.blob_", TRUE))

\* The asynchronous wrapper of RegExp.prototype.exec with REGEXP_MODE 2.
\* host.slow: the RegExp takes longer on the string than
\* REGEXP_THREAD_TIMEOUT.  A worker that was started is kept in host.workers
\* with the call's state and the RegExp object.
exec(m, funcThis, arguments, state) ==
    IF ~IsObj(funcThis) \/ ~IsNative(m.heap[funcThis.v].data)
    THEN Raise(m, HostErr("TypeError", Str("Cannot set properties of undefined")))
    ELSE Let(m.heap[funcThis.v].data.v, LAMBDA regexp :
         Bind(getProperty(m, funcThis, "lastIndex"), LAMBDA lastIndex :
         Let([lastIndex.m EXCEPT !.host.natives[regexp].properties =
                  HostSet(@, "lastIndex", ToNumber(lastIndex.v)).bag], LAMBDA m0 :
         Bind(maybeThrowRegExp(m0, state, m0.host.natives[regexp]), LAMBDA ok :
         Let(Access(ok.m, "S8Interpreter.vm", FALSE), LAMBDA m1 :
             IF m1.host.vm
             THEN IF m1.host.slow
                  THEN timeout(m1, state, m1.host.natives[regexp])
                  ELSE Bind(setProperty(m1, funcThis, "lastIndex",
                                Get(m1.host.natives[regexp].properties, "lastIndex"),
                                NoDescriptor), LAMBDA set :
                       Bind(matchToPseudo(set.m), LAMBDA match :
                            Ret(callback(match.m, state, match.v), Undef)))
             ELSE Ret([createWorker(m1) EXCEPT !.host.workers =
                          Append(@, [state |-> state, regexp |-> funcThis])], Undef))))))

\* The function regExpTimeout hands to setTimeout, for worker i: the
\* try/catch around throwException lets nothing out.
regExpTimeout(m, i) ==
    Let(m.host.workers[i], LAMBDA worker :
    Let([m EXCEPT !.host.workers = SubSeq(@, 1, i - 1) \o SubSeq(@, i + 1, Len(@))],
        LAMBDA m1 :
        Ret(Thrown(timeout(m1, worker.state,
                           m1.host.natives[m1.heap[worker.regexp.v].data.v])).m, Undef)))

\* execWorker.onmessage for worker i.
onmessage(m, i) ==
    Let(m.host.workers[i], LAMBDA worker :
    Let([m EXCEPT !.host.workers = SubSeq(@, 1, i - 1) \o SubSeq(@, i + 1, Len(@))],
        LAMBDA m1 :
        Bind(setProperty(m1, worker.regexp, "lastIndex",
                 Get(m1.host.natives[m1.heap[worker.regexp.v].data.v].properties,
                     "lastIndex"), NoDescriptor), LAMBDA set :
        Bind(matchToPseudo(set.m), LAMBDA match :
             Ret(callback(match.m, worker.state, match.v), Undef)))))

\* stepCallExpression, state.doneCallee_ === 1: the value of the function.
callCallee_(m) ==
    LET s == TopId(m)
        state == Top(m)
        func == state.value
        m1 == [m EXCEPT !.frames[s].doneCallee_ = 2]
        ready(mm) == Ret([mm EXCEPT !.frames[s].arguments_ = << >>,
                                    !.frames[s].n_ = 0], 0)
    IN  IF state.doneCallee_ # 1 THEN Ret(m, 0)
        ELSE IF IsRef(func)
        THEN Bind(getValue(m1, func), LAMBDA r :
               LET m2 == [r.m EXCEPT !.frames[s].func_ = r.v,
                             !.frames[s].funcThis_ =
                                 IF func.base = SCOPE_REFERENCE THEN @ ELSE func.base]
               IN  IF m2.getterStep
                   THEN createGetter_([m2 EXCEPT !.frames[s].doneCallee_ = 1], r.v, func)
                   ELSE ready(m2))
        ELSE ready([m1 EXCEPT !.frames[s].func_ = func])

\* stepCallExpression, !state.doneArgs_: the arguments, then `this`.
callArgs_(m) ==
    LET s == TopId(m)
        state == Top(m)
        node == state.node
        func == state.func_
        m1 == IF state.n_ # 0
              THEN [m EXCEPT !.frames[s].arguments_ = Append(@, state.value)]
              ELSE m
        proto == Get(m.heap[func.v].properties, "prototype")
        m2 == IF func.v = ARRAY THEN createArray(m1)
              ELSE createObjectProto(m1, IF IsObj(proto) THEN proto.v ELSE OBJECT_PROTO)
    IN  IF state.doneArgs_ THEN Ret(m, 0)
        ELSE IF state.n_ < Len(node.arguments)
        THEN Spawn([m1 EXCEPT !.frames[s].n_ = state.n_ + 1],
                   State(node.arguments[state.n_ + 1], state.scope))
        ELSE IF node.type = "NewExpression"
        THEN IF ~IsObj(func)
             THEN Raise(m1, HostErr("TypeError", Str("Cannot read properties")))
             ELSE IF m.heap[func.v].illegalConstructor
             THEN throwException(m1, TYPE_ERROR, String(m, func) \o " is not a constructor")
             ELSE Ret([m2 EXCEPT !.frames[s].funcThis_ = Obj(New_(m2)),
                                 !.frames[s].isConstructor = TRUE,
                                 !.frames[s].doneArgs_ = TRUE], 0)
        ELSE Ret([m1 EXCEPT !.frames[s].doneArgs_ = TRUE,
                            !.frames[s].funcThis_ =
                                IF @ # Undef \/ m.scopes[state.scope].strict
                                THEN @ ELSE Obj(GLOBAL)], 0)

\* stepCallExpression, funcNode: the call of an interpreted function.
callFunction_(m, func) ==
    Let(Top(m), LAMBDA state :
    Let(m.heap[func.v].node, LAMBDA funcNode :
    Bind(createScope(m, funcNode.body, m.heap[func.v].parentScope), LAMBDA created :
    Let(Len(created.m.scopes), LAMBDA scope :
    Let(Obj(created.m.scopes[scope].object), LAMBDA object :
    \* Add all arguments.
    LET Params[i \in 0..Len(funcNode.params)] ==
            IF i = 0 THEN created
            ELSE Bind(Params[i - 1], LAMBDA r :
                     setProperty(r.m, object, funcNode.params[i],
                                 IF Len(state.arguments_) >= i THEN state.arguments_[i]
                                 ELSE Undef, NoDescriptor))
    IN
    Bind(Params[Len(funcNode.params)], LAMBDA r0 :
    \* Build arguments variable.
    Let(createArray(r0.m), LAMBDA m1 :
    Let(Obj(New_(m1)), LAMBDA argsList :
    LET Args[i \in 0..Len(state.arguments_)] ==
            IF i = 0 THEN Ret(m1, Undef)
            ELSE Bind(Args[i - 1], LAMBDA r :
                     setProperty(r.m, argsList, NumStr(i - 1), state.arguments_[i],
                                 NoDescriptor))
    IN
    Bind(Args[Len(state.arguments_)], LAMBDA r1 :
    Bind(setProperty(r1.m, object, "arguments", argsList, NoDescriptor), LAMBDA r2 :
    Bind(IF funcNode.id # ""
         THEN setProperty(r2.m, object, funcNode.id, func, NoDescriptor)
         ELSE r2, LAMBDA r3 :
    Bind(setProperty(r3.m, object, "this", state.funcThis_, READONLY_DESCRIPTOR),
         LAMBDA r4 :
        Spawn([r4.m EXCEPT !.frames[TopId(m)].value = Undef],
              State(funcNode.body, scope))))))))))))))

\* A callExec_ that does not mark the call as executed.
callExecUnmarked_(m) ==
    LET s == TopId(m)
        state == Top(m)
        func == state.func_
        f == m.heap[func.v]
        m2 == Pop(m)
    IN  IF state.doneExec_
        THEN IF state.isConstructor /\ state.value.t \notin {"object", "null"}
             THEN Ret(SetTopValue(m2, state.funcThis_), 0)
             ELSE Ret(SetTopValue(m2, state.value), 0)
        ELSE IF ~IsObj(func)
        THEN throwException(m, TYPE_ERROR, String(m, func) \o " is not a function")
        ELSE IF IsNode(f.node) THEN callFunction_(m, func)
        ELSE IF f.nativeFunc # ""
        THEN Bind(NativeApply(m, f.nativeFunc, state.funcThis_, state.arguments_),
                  LAMBDA r : Ret([r.m EXCEPT !.frames[s].value = r.v], 0))
        ELSE IF f.asyncFunc # ""
        THEN Ret(AsyncApply([m EXCEPT !.paused = TRUE], f.asyncFunc, state.funcThis_,
                            state.arguments_, s), 0)
        ELSE throwException(m, TYPE_ERROR, f.class \o " is not callable")

\* stepCallExpression, from `if (!state.doneExec_)` on.
callExec_(m) ==
    LET s == TopId(m)
        state == Top(m)
        func == state.func_
        m1 == [m EXCEPT !.frames[s].doneExec_ = TRUE]
        f == m.heap[func.v]
        m2 == Pop(m)
    IN  IF state.doneExec_
        THEN \* Execution complete.  Put the return value on the stack.
             IF state.isConstructor /\ state.value.t \notin {"object", "null"}
             THEN Ret(SetTopValue(m2, state.funcThis_), 0)
             ELSE Ret(SetTopValue(m2, state.value), 0)
        ELSE IF ~IsObj(func)
        THEN throwException(m1, TYPE_ERROR, String(m, func) \o " is not a function")
        ELSE IF IsNode(f.node) THEN callFunction_(m1, func)
        ELSE IF f.nativeFunc # ""
        THEN Bind(NativeApply(m1, f.nativeFunc, state.funcThis_, state.arguments_),
                  LAMBDA r : Ret([r.m EXCEPT !.frames[s].value = r.v], 0))
        ELSE IF f.asyncFunc = "exec"
        THEN Bind(exec([m1 EXCEPT !.paused = TRUE], state.funcThis_, state.arguments_, s),
                  LAMBDA r : Ret(r.m, 0))
        ELSE IF f.asyncFunc # ""
        THEN Ret(AsyncApply([m1 EXCEPT !.paused = TRUE], f.asyncFunc, state.funcThis_,
                            state.arguments_, s), 0)
        ELSE throwException(m1, TYPE_ERROR, f.class \o " is not callable")

stepCallExpression(m) ==
    LET s == TopId(m)
        state == Top(m)
    IN  IF state.doneCallee_ = 0
        THEN Spawn([m EXCEPT !.frames[s].doneCallee_ = 1],
                   [State(state.node.callee, state.scope) EXCEPT !.components = TRUE])
        ELSE Bind(callCallee_(m), LAMBDA r1 :
                 IF r1.v # 0 THEN r1
                 ELSE Bind(callArgs_(r1.m), LAMBDA r2 :
                          IF r2.v # 0 THEN r2 ELSE callExec_(r2.m)))

----------------------------------------------------------------------------
(* Construction: initGlobal, the host's init function, the polyfills.       *)

\* S8Interpreter.stripLocations_(node, undefined, undefined)
RECURSIVE stripLocations_(_)
stripLocations_(node) ==
    LET nodes == CASE node.type = "ExpressionStatement" -> {"expression"}
                   [] node.type \in {"CallExpression", "NewExpression"} -> {"callee"}
                   [] node.type \in {"BinaryExpression", "AssignmentExpression"} ->
                         {"left", "right"}
                   [] node.type = "MemberExpression" -> {"object", "property"}
                   [] node.type \in {"ThrowStatement", "ReturnStatement", "UnaryExpression"} ->
                         {"argument"}
                   [] node.type = "TryStatement" -> {"block", "handler", "finalizer"}
                   [] node.type = "CatchClause" -> {"param", "body"}
                   [] node.type = "FunctionExpression" -> {"body"}
                   [] OTHER -> {}
        lists == CASE node.type \in {"Program", "BlockStatement"} -> {"body"}
                   [] node.type \in {"CallExpression", "NewExpression"} -> {"arguments"}
                   [] OTHER -> {}
    IN  [f \in DOMAIN node |->
            IF f = "end" THEN 0
            ELSE IF f \in nodes THEN stripLocations_(node[f])
            ELSE IF f \in lists
            THEN [i \in 1..Len(node[f]) |-> stripLocations_(node[f][i])]
            ELSE node[f]]

\* The interpreter before createScope: no objects, no scopes, no stack.
Blank ==
    [stack |-> << >>, frames |-> << >>, heap |-> << >>, scopes |-> << >>,
     paused |-> FALSE, value |-> Undef, getterStep |-> FALSE, setterStep |-> FALSE,
     host |-> [val |-> Num(0), calls |-> << >>, cbs |-> << >>, resumed |-> << >>,
               ops |-> 0, natives |-> << >>, bridge |-> << >>,
               inserted |-> << >>,
               slow |-> FALSE, workers |-> << >>, timedOut |-> << >>,
               \* the test's `res`, the pending timers of setTimeout, and
               \* the functions queued by the timers that have fired
               res |-> "", timers |-> << >>, fired |-> << >>,
               \* what every instance of the class shares
               Worker |-> FALSE, require |-> TRUE,
               vm |-> FALSE, blob_ |-> FALSE, ids |-> {}, accesses |-> {},
               \* the instance the fields of the interpreter belong to, and
               \* the fields of the host's other instance
               current |-> 0, other |-> << >>]]

\* createErrorSubclass(name) of initError: the constructor is Fresh(m).
createErrorSubclass(m, name) ==
    Let(Fresh(m), LAMBDA constructor :
    Let(createObject(createNativeFunction(m, name, 1, TRUE), ERROR).m, LAMBDA m2 :
        Put(Put(Put(m2, constructor, "prototype", Obj(New_(m2)), NONENUMERABLE_DESCRIPTOR),
                New_(m2), "name", Str(name), NONENUMERABLE_DESCRIPTOR),
            GLOBAL, name, Obj(constructor), NoDescriptor)))

\* createScope(this.ast, null) and initGlobal up to its init calls: the
\* global scope, the uneditable globals, OBJECT_PROTO and FUNCTION_PROTO.
initGlobal(m, node) ==
    LET g0 == NewScope(createObjectProto(m, 0), 0, UseStrict(node), GLOBAL)
        g1 == Put(g0, GLOBAL, "NaN", NaN, READONLY_DESCRIPTOR)
        g2 == Put(g1, GLOBAL, "undefined", Undef, READONLY_DESCRIPTOR)
        g3 == Put(g2, GLOBAL, "window", Obj(GLOBAL), READONLY_DESCRIPTOR)
        g4 == Put(g3, GLOBAL, "this", Obj(GLOBAL), READONLY_DESCRIPTOR)
        g5 == Put(g4, GLOBAL, "self", Obj(GLOBAL), NoDescriptor)
        p1 == [g5 EXCEPT !.heap = @ \o <<Object(0), Object(OBJECT_PROTO)>>]
    IN  [p1 EXCEPT !.heap[GLOBAL].proto = OBJECT_PROTO,
                   !.heap[FUNCTION_PROTO].class = "Function"]

\* initArray, and the prototypes of initString, initNumber, initBoolean.
\* Of the built-ins, those the model uses are built.
initArray(m) ==
    LET a1 == createNativeFunction(m, "Array", 1, TRUE)
        a2 == Put(a1, GLOBAL, "Array", Obj(ARRAY), NoDescriptor)
        a3 == Put(a2, ARRAY_PROTO, "length", Num(0), LENGTH_DESCRIPTOR)
        a4 == [a3 EXCEPT !.heap[ARRAY_PROTO].class = "Array"]
    IN  createObjectProto(createObjectProto(createObjectProto(a4, OBJECT_PROTO),
                                            OBJECT_PROTO), OBJECT_PROTO)

\* initDate: the Date constructor and its prototype.
initDate(m) ==
    Let(Put(createNativeFunction(m, "Date", 7, TRUE), GLOBAL, "Date", Obj(DATE),
            NoDescriptor), LAMBDA m1 :
        \* Static methods on Date: Date.now is the host's own function.
        Put(createNativeFunction(m1, "Date.now", 0, FALSE), DATE, "now", Obj(Fresh(m1)),
            NONENUMERABLE_DESCRIPTOR))

\* initRegExp: the RegExp constructor and the properties of its prototype.
initRegExp(m) ==
    LET r1 == createNativeFunction(m, "RegExp", 2, TRUE)
        r2 == Put(r1, GLOBAL, "RegExp", Obj(REGEXP), NoDescriptor)
        r3 == Put(r2, REGEXP_PROTO, "global", Undef, READONLY_NONENUMERABLE_DESCRIPTOR)
        r4 == Put(r3, REGEXP_PROTO, "ignoreCase", Undef, READONLY_NONENUMERABLE_DESCRIPTOR)
        r5 == Put(r4, REGEXP_PROTO, "multiline", Undef, READONLY_NONENUMERABLE_DESCRIPTOR)
        r6 == Put(r5, REGEXP_PROTO, "source", Str("(?:)"), READONLY_NONENUMERABLE_DESCRIPTOR)
    IN  \* this.setAsyncFunctionPrototype(this.REGEXP, 'exec', wrapper)
        Put(createAsyncFunction(r6, "exec", 2), REGEXP_PROTO, "exec", Obj(Fresh(r6)),
            NONENUMERABLE_DESCRIPTOR)

\* initError up to its calls of createErrorSubclass.
initError(m) ==
    LET e1 == createNativeFunction(m, "Error", 1, TRUE)
        e2 == Put(e1, GLOBAL, "Error", Obj(ERROR), NoDescriptor)
        e3 == Put(e2, ERROR_PROTO, "message", Str(""), NONENUMERABLE_DESCRIPTOR)
    IN  Put(e3, ERROR_PROTO, "name", Str("Error"), NONENUMERABLE_DESCRIPTOR)

\* The subclasses initError goes on to create, in this order.
ErrorSubclasses == <<"RangeError", "ReferenceError", "TypeError">>

\* The polyfill source registered by initArray, parsed and cut down to one
\* function: it defines Array.prototype.forEach as a guest function whose
\* body reads a global by its name, as the polyfills of bind
\* (`Array.prototype.slice.call(arguments, 1)`) and of replace
\* (`substr instanceof RegExp`) do.
PolyfillBody ==
    Block(<<ExprStmt(Member(Id("Array"), "prototype")), Return(Lit(Num(7)))>>)

\* Polyfill source that defines nothing.
PolyfillsNone == Program(<< >>)

Polyfills ==
    Program(<<ExprStmt(Assign("=", Member(Member(Id("Array"), "prototype"), "forEach"),
                              FuncExpr("forEach", <<"callback">>, PolyfillBody)))>>)

\* The init function of the embedding host (opt_initFunc), as the tests
\* write it: it registers native functions on the global object,
initFunc_(m) ==
    LET register(m1, name, m2) == Put(m2, GLOBAL, name, Obj(Fresh(m1)), NoDescriptor)
    IN  Let(register(m, "setVal", createNativeFunction(m, "setVal", 1, FALSE)), LAMBDA f1 :
        Let(register(f1, "getVal", createNativeFunction(f1, "getVal", 0, FALSE)),
            LAMBDA f2 :
        Let(register(f2, "wait", createAsyncFunction(f2, "wait", 2)), LAMBDA f3 :
            register(f3, "require", createNativeFunction(f3, "require", 1, FALSE)))))

\* and then objects: an Error, an Error with a name of its own, a TypeError,
\* an object `box` whose property g has the native getVal as its getter and
\* whose property v has getVal as its getter and setVal as its setter, and
\* an object `kid` whose prototype is box, and an accessor property `now` of
\* the global object with getVal as its getter.
initObjects_(m) ==
    LET \* new constructor(message), kept in the global `global`
        error(m1, constructor, global) ==
            Let(createObject(m1, constructor).m, LAMBDA e :
                Put(Put(e, New_(e), "message", Str("boom"), NoDescriptor),
                    GLOBAL, global, Obj(New_(e)), NoDescriptor))
    IN  Let(error(m, ERROR, "plainErr"), LAMBDA e2 :
        Let(error(e2, ERROR, "customErr"), LAMBDA e3 :
        Let(Put(e3, New_(e3), "name", Str("MyError"), NoDescriptor), LAMBDA e4 :
        Let(error(e4, TYPE_ERROR, "typeErr"), LAMBDA e6 :
        Let(createObjectProto(e6, OBJECT_PROTO), LAMBDA b1 :
        Let(Put(Put(b1, New_(b1), "g", VALUE_IN_DESCRIPTOR,
                    [get |-> getProperty(m, Obj(GLOBAL), "getVal").v,
                     enumerable |-> TRUE, configurable |-> TRUE]),
                GLOBAL, "box", Obj(New_(b1)), NoDescriptor), LAMBDA b2 :
        Let(Put(b2, New_(b1), "v", VALUE_IN_DESCRIPTOR,
                [get |-> getProperty(m, Obj(GLOBAL), "getVal").v,
                 set |-> getProperty(m, Obj(GLOBAL), "setVal").v,
                 enumerable |-> TRUE, configurable |-> TRUE]), LAMBDA b3 :
        Let(createObjectProto(b3, New_(b1)), LAMBDA k1 :
        Let(Put(k1, GLOBAL, "kid", Obj(New_(k1)), NoDescriptor), LAMBDA k2 :
            Put(k2, GLOBAL, "now", VALUE_IN_DESCRIPTOR,
                [get |-> getProperty(m, Obj(GLOBAL), "getVal").v,
                 enumerable |-> TRUE, configurable |-> TRUE]))))))))))

----------------------------------------------------------------------------
(* The programs the model runs.                                            *)

CallStmt(name, args) == ExprStmt(Call(Id(name), args))
Two == Lit(Num(2))

Programs ==
    { \* setVal(2); setVal(getVal() + 2, setVal(7));
      Program(<<CallStmt("setVal", <<Two>>),
                CallStmt("setVal", <<Bin("+", Call(Id("getVal"), << >>), Two),
                                     Call(Id("setVal"), <<Lit(Num(7))>>)>>)>>),
      \* throw "horrible err"; setVal(2);
      Program(<<Throw(Lit(Str("horrible err"))), CallStmt("setVal", <<Two>>)>>),
      \* setVal(wait(2));
      Program(<<CallStmt("setVal", <<Call(Id("wait"), <<Two>>)>>)>>),
      \* try { throw typeErr; } finally { setVal(2); }  setVal(2);
      Program(<<Try(Block(<<Throw(Id("typeErr"))>>), NoNode,
                    Block(<<CallStmt("setVal", <<Two>>)>>)),
                CallStmt("setVal", <<Two>>)>>),
      \* try { missing(); } catch (e) { setVal(e); }  setVal(2);
      Program(<<Try(Block(<<CallStmt("missing", << >>)>>),
                    Catch("e", Block(<<CallStmt("setVal", <<Id("e")>>)>>)), NoNode),
                CallStmt("setVal", <<Two>>)>>),
      \* throw plainErr; setVal(2);   throw customErr;   throw box;
      Program(<<Throw(Id("plainErr")), CallStmt("setVal", <<Two>>)>>),
      Program(<<Throw(Id("customErr"))>>),
      Program(<<Throw(Id("box"))>>),
      \* missing(); setVal(2);
      Program(<<CallStmt("missing", << >>), CallStmt("setVal", <<Two>>)>>),
      \* setVal(Array.prototype.forEach(2));
      Program(<<CallStmt("setVal",
                  <<Call(Member(Member(Id("Array"), "prototype"), "forEach"), <<Two>>)>>)>>),
      \* setVal(box.g);
      Program(<<CallStmt("setVal", <<Member(Id("box"), "g")>>)>>) }

\* What the host hands to appendCode: a program, or a node that is not one.
Appended ==
    { Program(<<CallStmt("setVal", <<Lit(Num(9))>>)>>),
      CallStmt("setVal", <<Lit(Num(9))>>) }

\* What the host hands to a resume callback.
CallbackValues == {Num(5), Str("v")}

----------------------------------------------------------------------------
(* The host API: the constructor, step(), run(), appendCode(), callbacks.   *)

\* `rounds` counts the handlers the call has invoked.
Idle == [op |-> "idle", inStep |-> FALSE, nextState |-> 0, end |-> 0, rounds |-> 0]
NoResult == [op |-> "none", kind |-> "none", ret |-> FALSE, err |-> NoErr, rounds |-> 0]

\* The interpreter's fields take the values they have in m.
Commit(m) ==
    /\ stateStack' = m.stack
    /\ frames' = m.frames
    /\ heap' = m.heap
    /\ scopes' = m.scopes
    /\ paused_' = m.paused
    /\ value' = m.value
    /\ getterStep_' = m.getterStep
    /\ setterStep_' = m.setterStep
    /\ host' = m.host

\* new S8Interpreter(code, initFunc) begins, for one of the programs.
StartsIn(programs, hosts) ==
    /\ phase = "new"
    /\ code \in programs
    /\ ast = NoNode
    /\ stateStack = << >>
    /\ frames = << >>
    /\ heap = << >>
    /\ scopes = << >>
    /\ paused_ = FALSE
    /\ value = Undef
    /\ getterStep_ = FALSE
    /\ setterStep_ = FALSE
    /\ polyfills_ = FALSE
    /\ call = Idle
    /\ result = NoResult
    /\ host \in hosts

Starts(programs) == StartsIn(programs, {Blank.host})

Init == Starts(Programs)

\* The constructor up to initGlobal's init calls: `ast` is the clone of the
\* program.
InitGlobal ==
    /\ phase = "new"
    /\ phase' = "initGlobal"
    /\ ast' = code
    /\ Commit(initGlobal(This, code))
    /\ UNCHANGED <<code, polyfills_, call, result>>

\* this.initArray(globalObject) registers its polyfill sources.
InitArray ==
    /\ phase = "initGlobal"
    /\ phase' = "initArray"
    /\ polyfills_' = TRUE
    /\ Commit(initArray(This))
    /\ UNCHANGED <<code, ast, call, result>>

\* this.initDate(globalObject)
InitDate ==
    /\ phase = "initArray"
    /\ phase' = "initDate"
    /\ Commit(initDate(This))
    /\ UNCHANGED <<code, ast, polyfills_, call, result>>

\* this.initRegExp(globalObject)
InitRegExp ==
    /\ phase = "initDate"
    /\ phase' = "initRegExp"
    /\ Commit(initRegExp(This))
    /\ UNCHANGED <<code, ast, polyfills_, call, result>>

\* this.initError(globalObject)
InitError ==
    /\ phase = "initRegExp"
    /\ phase' = "initError"
    /\ Commit(initError(This))
    /\ UNCHANGED <<code, ast, polyfills_, call, result>>

\* createErrorSubclass(name), once for each subclass.
CreateErrorSubclass ==
    /\ phase = "initError"
    /\ \E i \in DOMAIN ErrorSubclasses :
         /\ Fresh(This) = ERROR_PROTO + 3 * i - 2
         /\ Commit(createErrorSubclass(This, ErrorSubclasses[i]))
         /\ phase' = IF i = Len(ErrorSubclasses) THEN "builtins" ELSE phase
    /\ UNCHANGED <<code, ast, polyfills_, call, result>>

\* this.initFunc_(this, globalObject), the last statement of initGlobal.
InitFunc ==
    /\ phase = "builtins"
    /\ phase' = "initFunc"
    /\ Commit(initFunc_(This))
    /\ UNCHANGED <<code, ast, polyfills_, call, result>>

InitObjects ==
    /\ phase = "initFunc"
    /\ phase' = "init"
    /\ Commit(initObjects_(This))
    /\ UNCHANGED <<code, ast, polyfills_, call, result>>

\* this.populateScope_(node, scope), the end of createScope(this.ast, null).
PopulateScope ==
    /\ phase = "init"
    /\ phase' = "scope"
    /\ Commit(populateScope_(This, ast, GLOBAL_SCOPE).m)
    /\ UNCHANGED <<code, ast, polyfills_, call, result>>

\* The constructor from "Run the polyfills" to its call of this.run().
RunPolyfills ==
    /\ phase = "scope"
    /\ phase' = "polyfills"
    /\ ast' = stripLocations_(Polyfills)
    /\ polyfills_' = FALSE
    /\ Commit([This EXCEPT !.frames = <<State(ast', GLOBAL_SCOPE)>>, !.stack = <<1>>])
    /\ call' = [Idle EXCEPT !.op = "run"]
    /\ UNCHANGED <<code, result>>

\* The constructor after this.run(): "Point at the main program."
Queue ==
    /\ phase = "polyfills"
    /\ call.op = "idle"
    /\ result.kind = "return"
    /\ phase' = "ready"
    /\ ast' = code
    /\ Commit([This EXCEPT !.value = Undef,
                           !.frames = Append(@, State(code, GLOBAL_SCOPE)),
                           !.stack = <<Len(frames) + 1>>])
    /\ result' = NoResult
    /\ UNCHANGED <<code, polyfills_, call>>

\* step() or run() returns r, or run()'s loop goes round again.
Returns(m, r, end, rounds) ==
    /\ Commit(m)
    /\ IF call.op = "run" /\ r /\ ~m.paused
       THEN /\ call' = [Idle EXCEPT !.op = "run", !.end = end, !.rounds = rounds]
            /\ UNCHANGED result
       ELSE /\ call' = [Idle EXCEPT !.end = end]
            /\ result' = [op |-> call.op, kind |-> "return",
                          ret |-> IF call.op = "run" THEN m.paused ELSE r,
                          err |-> NoErr, rounds |-> rounds]
    /\ UNCHANGED <<phase, code, ast, polyfills_>>

\* A host error leaves step(), and run() with it.
Throws(m, err, end) ==
    /\ Commit(m)
    /\ call' = [Idle EXCEPT !.end = end]
    /\ result' = [op |-> call.op, kind |-> "throw", ret |-> FALSE, err |-> err,
                  rounds |-> call.rounds + 1]
    /\ UNCHANGED <<phase, code, ast, polyfills_>>

\* The host calls step() or run().
CallStep ==
    /\ phase = "ready" /\ call.op = "idle"
    /\ call' = [Idle EXCEPT !.op = "step"]
    /\ result' = NoResult
    /\ UNCHANGED <<phase, code, ast, stateStack, frames, heap, scopes, paused_, value,
                   getterStep_, setterStep_, polyfills_, host>>

CallRun ==
    /\ phase = "ready" /\ call.op = "idle"
    /\ call' = [Idle EXCEPT !.op = "run"]
    /\ result' = NoResult
    /\ UNCHANGED <<phase, code, ast, stateStack, frames, heap, scopes, paused_, value,
                   getterStep_, setterStep_, polyfills_, host>>

\* The model follows a call for at most this many handlers.
MaxRounds == 80

\* The head of step()'s loop lets a handler run.
Running ==
    /\ call.op # "idle" /\ call.rounds < MaxRounds
    /\ call.op = "run" /\ ~call.inStep => ~paused_
    /\ Len(stateStack) > 0
    /\ ~(Top(This).node.type = "Program" /\ Top(This).done)
    /\ ~paused_

\* A round after which step() returns whether or not the node has a position.
EndRoundStops(r) ==
    LET end == Top(This).node.end
        nextState == IF r.exc = "none" THEN r.v ELSE call.nextState
        m == IF nextState # 0 THEN [r.m EXCEPT !.stack = Append(@, nextState)] ELSE r.m
    IN  IF r.exc = "host" THEN Throws(r.m, r.err, end)
        ELSE IF m.getterStep
        THEN Throws(m, HostErr("Error", Str("Getter not supported in this context")), end)
        ELSE IF m.setterStep
        THEN Throws(m, HostErr("Error", Str("Setter not supported in this context")), end)
        ELSE Returns(m, TRUE, end, call.rounds + 1)

\* One round of step()'s loop: the handler of the top state's node type was
\* called and has result r; its State, if any, is pushed.
EndRound(r) ==
    LET end == Top(This).node.end
        \* `var nextState` keeps its value when the handler throws
        nextState == IF r.exc = "none" THEN r.v ELSE call.nextState
        m == IF nextState # 0 THEN [r.m EXCEPT !.stack = Append(@, nextState)] ELSE r.m
    IN  IF r.exc = "host" THEN Throws(r.m, r.err, end)
        ELSE IF m.getterStep
        THEN Throws(m, HostErr("Error", Str("Getter not supported in this context")), end)
        ELSE IF m.setterStep
        THEN Throws(m, HostErr("Error", Str("Setter not supported in this context")), end)
        ELSE IF end = 0
        THEN /\ Commit(m)
             /\ call' = [call EXCEPT !.inStep = TRUE, !.nextState = nextState, !.end = end,
                                     !.rounds = @ + 1]
             /\ UNCHANGED <<phase, code, ast, polyfills_, result>>
        ELSE Returns(m, TRUE, end, call.rounds + 1)

Round(type, r) == EndRound(Thrown(r))

Handles(type) == Running /\ Top(This).node.type = type

StepProgram == Handles("Program") /\ Round("Program", stepProgram(This))
StepExpressionStatement ==
    Handles("ExpressionStatement")
        /\ Round("ExpressionStatement", stepExpressionStatement(This))
StepLiteral == Handles("Literal") /\ Round("Literal", stepLiteral(This))
StepIdentifier == Handles("Identifier") /\ Round("Identifier", stepIdentifier(This))
StepCallExpression ==
    Handles("CallExpression") /\ Round("CallExpression", stepCallExpression(This))
StepBinaryExpression ==
    Handles("BinaryExpression") /\ Round("BinaryExpression", stepBinaryExpression(This))
StepAssignmentExpression ==
    Handles("AssignmentExpression")
        /\ Round("AssignmentExpression", stepAssignmentExpression(This))
StepMemberExpression ==
    Handles("MemberExpression") /\ Round("MemberExpression", stepMemberExpression(This))
StepFunctionExpression ==
    Handles("FunctionExpression")
        /\ Round("FunctionExpression", stepFunctionExpression(This))
StepBlockStatement ==
    Handles("BlockStatement") /\ Round("BlockStatement", stepBlockStatement(This))
StepReturnStatement ==
    Handles("ReturnStatement") /\ Round("ReturnStatement", stepReturnStatement(This))
StepThrowStatement ==
    Handles("ThrowStatement") /\ Round("ThrowStatement", stepThrowStatement(This))
StepFunctionDeclaration ==
    Handles("FunctionDeclaration")
        /\ Round("FunctionDeclaration", stepFunctionDeclaration(This))
StepVariableDeclaration ==
    Handles("VariableDeclaration")
        /\ Round("VariableDeclaration", stepVariableDeclaration(This))
StepTryStatement ==
    Handles("TryStatement") /\ Round("TryStatement", stepTryStatement(This))
StepCatchClause == Handles("CatchClause") /\ Round("CatchClause", stepCatchClause(This))

\* step() finds nothing to do: `return false`.
StepDone ==
    /\ call.op # "idle"
    /\ call.op = "run" /\ ~call.inStep => ~paused_
    /\ Len(stateStack) = 0 \/ (Top(This).node.type = "Program" /\ Top(This).done)
    /\ Returns(This, FALSE, IF Len(stateStack) = 0 THEN call.end ELSE Top(This).node.end,
               call.rounds)

\* A step() that answers false when it finds the interpreter paused.
StepPausedFalse ==
    /\ call.op = "step" \/ (call.op = "run" /\ call.inStep)
    /\ Len(stateStack) > 0
    /\ ~(Top(This).node.type = "Program" /\ Top(This).done)
    /\ paused_
    /\ Returns(This, FALSE, Top(This).node.end, call.rounds)

\* step() finds the interpreter paused: `return true`.
StepPaused ==
    /\ call.op = "step" \/ (call.op = "run" /\ call.inStep)
    /\ Len(stateStack) > 0
    /\ ~(Top(This).node.type = "Program" /\ Top(This).done)
    /\ paused_
    /\ Returns(This, TRUE, Top(This).node.end, call.rounds)

\* run() finds the interpreter paused and does not call step().
RunPaused ==
    /\ call.op = "run" /\ ~call.inStep
    /\ paused_
    /\ Returns(This, FALSE, call.end, call.rounds)

\* An appendCode that puts the new statements before the queued ones.
appendCodeFirst(m, new) ==
    LET state == m.frames[m.stack[1]]
    IN  IF Len(m.stack) = 0 \/ state.node.type # "Program"
        THEN Raise(m, HostErr("Error",
                 Str("Expecting original AST to start with a Program node.")))
        ELSE IF new.type # "Program"
        THEN Raise(m, HostErr("Error",
                 Str("Expecting new AST to start with a Program node.")))
        ELSE Bind(populateScope_(m, new, state.scope), LAMBDA r :
                 Ret([r.m EXCEPT !.frames[m.stack[1]].node.body = new.body \o @,
                                 !.frames[m.stack[1]].done = FALSE], Undef))

\* An appendCode that leaves the done mark of the root state as it is.
appendCodeKeepsDone(m, new) ==
    LET state == m.frames[m.stack[1]]
    IN  IF Len(m.stack) = 0 \/ state.node.type # "Program"
        THEN Raise(m, HostErr("Error",
                 Str("Expecting original AST to start with a Program node.")))
        ELSE IF new.type # "Program"
        THEN Raise(m, HostErr("Error",
                 Str("Expecting new AST to start with a Program node.")))
        ELSE Bind(populateScope_(m, new, state.scope), LAMBDA r :
                 Ret([r.m EXCEPT !.frames[m.stack[1]].node.body = @ \o new.body], Undef))

\* this.appendCode(code)
appendCode(m, new) ==
    LET state == m.frames[m.stack[1]]
    IN  IF Len(m.stack) = 0 \/ state.node.type # "Program"
        THEN Raise(m, HostErr("Error",
                 Str("Expecting original AST to start with a Program node.")))
        ELSE IF new.type # "Program"
        THEN Raise(m, HostErr("Error",
                 Str("Expecting new AST to start with a Program node.")))
        ELSE Bind(populateScope_(m, new, state.scope), LAMBDA r :
                 Ret([r.m EXCEPT !.frames[m.stack[1]].node.body = @ \o new.body,
                                 !.frames[m.stack[1]].done = FALSE], Undef))

\* The host calls appendCode.
AppendCode ==
    /\ phase = "ready" /\ call.op = "idle"
    /\ host.ops < MaxHostOps
    /\ \E new \in Appended :
         LET r == Thrown(appendCode([This EXCEPT !.host.ops = @ + 1], new))
         IN  /\ Commit(r.m)
             /\ result' = [op |-> "appendCode",
                           kind |-> IF r.exc = "none" THEN "return" ELSE "throw",
                           ret |-> FALSE, err |-> r.err, rounds |-> 0]
    /\ UNCHANGED <<phase, code, ast, polyfills_, call>>

\* The host invokes a resume callback it was handed.
InvokeCallback ==
    /\ phase = "ready" /\ call.op = "idle"
    /\ host.ops < MaxHostOps
    /\ \E i \in 1..Len(host.cbs), val \in CallbackValues :
         Commit(callback([This EXCEPT !.host.ops = @ + 1,
                                      !.host.resumed =
                                          Append(@, [state |-> host.cbs[i], value |-> val])],
                         host.cbs[i], val))
    /\ result' = [NoResult EXCEPT !.op = "callback"]
    /\ UNCHANGED <<phase, code, ast, polyfills_, call>>

Next ==
    \/ InitGlobal \/ InitArray \/ InitDate \/ InitRegExp \/ InitError
    \/ CreateErrorSubclass
    \/ InitFunc \/ InitObjects \/ PopulateScope \/ RunPolyfills \/ Queue
    \/ CallStep \/ CallRun \/ AppendCode \/ InvokeCallback
    \/ StepDone \/ StepPaused \/ RunPaused
    \/ StepProgram \/ StepExpressionStatement \/ StepLiteral \/ StepIdentifier
    \/ StepCallExpression \/ StepBinaryExpression \/ StepAssignmentExpression
    \/ StepMemberExpression \/ StepFunctionExpression \/ StepBlockStatement
    \/ StepReturnStatement \/ StepThrowStatement \/ StepTryStatement
    \/ StepCatchClause

Spec == Init /\ [][Next]_vars

----------------------------------------------------------------------------
(* Arrays: what the statements of a guest program do to an array, one       *)
(* action for each kind of statement, on the interpreter as constructed.    *)

\* The arrays that guest code has created.
Arrays == {id \in DOMAIN heap : heap[id].class = "Array" /\ id # ARRAY_PROTO}

\* Property names and values the statements use: indices up to the largest,
\* the first name that is not an index, lengths up to the first illegal one.
ArrayNames == {"0", "1", NumStr(Modulus - 2), NumStr(Modulus - 1), "length"}
ArrayValues == {Num(0), Num(2), Num(Modulus - 1), Num(Modulus), Str("x")}

\* Descriptor objects: {value: 1}, {value: true}, and
\* {value: 0, writable: true, enumerable: true, configurable: true}.
Descriptors ==
    { [value |-> Num(1)], [value |-> Bool(TRUE)],
      [value |-> Num(0), writable |-> TRUE, enumerable |-> TRUE, configurable |-> TRUE] }

\* A statement ran with outcome r: an exception it threw reaches the host.
Ran(r) ==
    /\ Commit([r.m EXCEPT !.host.ops = @ + 1])
    /\ result' = [op |-> "statement",
                  kind |-> IF r.exc = "none" THEN "return" ELSE "throw",
                  ret |-> FALSE, err |-> r.err, rounds |-> 0]
    /\ UNCHANGED <<phase, code, ast, polyfills_, call>>

Statement == phase = "ready" /\ call.op = "idle" /\ host.ops < MaxArrayOps

\* a = [];
ArrayCreate ==
    /\ Statement /\ Arrays = {}
    /\ Ran(Ret(createArray(This), Undef))

\* a[name] = val;  a.length = val;
ArrayAssign ==
    /\ Statement
    /\ \E a \in Arrays, name \in ArrayNames, val \in ArrayValues :
         Ran(Thrown(setValue(This, Ref(Obj(a), name), val)))

\* Object.defineProperty(a, name, descriptor);
ArrayDefineProperty ==
    /\ Statement
    /\ \E a \in Arrays, name \in {"1", "length"}, descriptor \in Descriptors :
         Ran(Thrown(defineProperty(This, Obj(a), name, descriptor)))

\* a.push(1);
ArrayPush ==
    /\ Statement
    /\ \E a \in Arrays : Ran(arrayPush(This, Obj(a), <<Num(1)>>))

\* a.pop();
ArrayPop ==
    /\ Statement
    /\ \E a \in Arrays : Ran(arrayPop(This, Obj(a)))

\* Object.preventExtensions(a);
ArrayPreventExtensions ==
    /\ Statement
    /\ \E a \in Arrays : Ran(preventExtensions(This, Obj(a)))

\* with (a) length = val;   The states of the statement leave the stack
\* again when it is done.
ArrayWithAssign ==
    /\ Statement
    /\ \E a \in Arrays, val \in ArrayValues :
         LET with == [State([type |-> "WithStatement", end |-> 1], GLOBAL_SCOPE)
                         EXCEPT !.doneObject_ = TRUE, !.value = Obj(a)]
             m == [This EXCEPT !.frames = Append(@, with), !.stack = Append(@, Len(frames) + 1)]
             body == stepWithStatement([m EXCEPT !.frames[Len(frames) + 1].node =
                         [type |-> "WithStatement", end |-> 1,
                          object |-> Id("a"),
                          body |-> ExprStmt(Assign("=", Id("length"), Lit(val)))]])
             inBody == [body.m EXCEPT !.stack = Append(@, body.v)]
             r == Thrown(setValue(inBody, Ref(SCOPE_REFERENCE, "length"), val))
         IN  Ran(IF r.exc = "none" THEN [r EXCEPT !.m.stack = stateStack] ELSE r)

NextArray ==
    \/ InitGlobal \/ InitArray \/ InitDate \/ InitRegExp \/ InitError
    \/ CreateErrorSubclass
    \/ InitFunc \/ InitObjects \/ PopulateScope \/ RunPolyfills \/ Queue
    \/ StepProgram \/ StepExpressionStatement \/ StepAssignmentExpression
    \/ StepMemberExpression \/ StepIdentifier \/ StepFunctionExpression \/ StepDone
    \/ ArrayCreate \/ ArrayAssign \/ ArrayDefineProperty \/ ArrayPush \/ ArrayPop
    \/ ArrayPreventExtensions \/ ArrayWithAssign

\* The interpreter is constructed for the empty program.
SpecArray == Starts({Program(<< >>)}) /\ [][NextArray]_vars

----------------------------------------------------------------------------
(* Objects: what the statements of a guest program do to plain objects.     *)

\* An Object.create that makes the new object the prototype of its own
\* prototype, when that is an object of the guest.
objectCreateLinksBack(m, proto) ==
    IF IsObj(proto) /\ proto.v # OBJECT_PROTO
    THEN Ret([createObjectProto(m, proto.v) EXCEPT !.heap[proto.v].proto = Len(m.heap) + 1],
             Obj(Len(m.heap) + 1))
    ELSE Ret(createObjectProto(m, IF proto = Null THEN 0 ELSE OBJECT_PROTO),
             Obj(Len(m.heap) + 1))

\* The wrapper that initObject installs as Object.create.
objectCreate(m, proto) ==
    IF proto = Null THEN Ret(createObjectProto(m, 0), Obj(Len(m.heap) + 1))
    ELSE IF ~IsObj(proto)
    THEN throwException(m, TYPE_ERROR, "Object prototype may only be an Object or null")
    ELSE Ret(createObjectProto(m, proto.v), Obj(Len(m.heap) + 1))

\* The global variables that hold the objects, and the one property used.
ObjectVars == {"o", "p"}
ObjectNames == {"x"}

\* The objects that guest code has created.
Objects ==
    {Get(heap[GLOBAL].properties, var).v :
        var \in {n \in ObjectVars : /\ phase = "ready"
                                    /\ IsObj(Get(heap[GLOBAL].properties, n))}}

\* Descriptor objects: {value: 6, configurable: true},
\* {get: getVal, configurable: true} and {get: undefined}.
ObjectDescriptors ==
    { [value |-> Num(6), configurable |-> TRUE],
      [get |-> Get(heap[GLOBAL].properties, "getVal"), configurable |-> TRUE],
      [get |-> Undef] }

\* What Object.create is given: null, Object.prototype, an object.
ObjectProtos == {Null, Num(1), Obj(OBJECT_PROTO)} \cup {Obj(o) : o \in Objects}

\* var = Object.create(proto);
ObjectCreate ==
    /\ Statement
    /\ \E var \in ObjectVars, proto \in ObjectProtos :
         /\ ~In(heap[GLOBAL].properties, var)
         /\ Ran(Bind(Thrown(objectCreate(This, proto)), LAMBDA r :
                    Thrown(setValue(r.m, Ref(SCOPE_REFERENCE, var), r.v))))

\* o.name = val;
ObjectAssign ==
    /\ Statement
    /\ \E o \in Objects, name \in ObjectNames, val \in {Num(0), Num(5)} :
         Ran(Thrown(setValue(This, Ref(Obj(o), name), val)))

\* Object.defineProperty(o, name, descriptor);
ObjectDefineProperty ==
    /\ Statement
    /\ \E o \in Objects, name \in ObjectNames, descriptor \in ObjectDescriptors :
         Ran(Thrown(defineProperty(This, Obj(o), name, descriptor)))

\* Object.preventExtensions(o);
ObjectPreventExtensions ==
    /\ Statement
    /\ \E o \in Objects : Ran(preventExtensions(This, Obj(o)))

NextObject ==
    \/ InitGlobal \/ InitArray \/ InitDate \/ InitRegExp \/ InitError
    \/ CreateErrorSubclass
    \/ InitFunc \/ InitObjects \/ PopulateScope \/ RunPolyfills \/ Queue
    \/ StepProgram \/ StepExpressionStatement \/ StepAssignmentExpression
    \/ StepMemberExpression \/ StepIdentifier \/ StepFunctionExpression \/ StepDone
    \/ ObjectCreate \/ ObjectAssign \/ ObjectDefineProperty \/ ObjectPreventExtensions

\* The interpreter is constructed for the empty program.
SpecObject == Starts({Program(<< >>)}) /\ [][NextObject]_vars

----------------------------------------------------------------------------
(* The host bridge with a guest program and a host that calls it.          *)

\* JSON values of the host: {"x": 0}, [1, "a"] and
\* {"k": [{"x": true}], "1": null}.
JSONValues ==
    { Members(<<"x">>, <<Num(0)>>),
      Arr(<<Num(1), Str("a")>>),
      Members(<<"k", "1">>, <<Arr(<<Members(<<"x">>, <<Bool(TRUE)>>)>>), Null>>) }

\* What the host imports: JSON values, a Date, a RegExp with a lastIndex.
HostValues == JSONValues \cup {DateOf(7), RegExpOf("a+", 1)}

\* The guest's variable, and the property names and values it assigns.
BridgeNames == {"x", "y", "1"}

\* The guest's objects: that of the variable and those its properties hold.
BridgeObjects ==
    Objects \cup UNION {{heap[o].properties[i].v.v :
                             i \in {n \in DOMAIN heap[o].properties :
                                       IsObj(heap[o].properties[n].v)}} : o \in Objects}

\* Number of statements and bridge calls in one behaviour of SpecBridge.
MaxBridgeOps == 4

BridgeCall == phase = "ready" /\ call.op = "idle" /\ host.ops < MaxBridgeOps

\* The call of a bridge function is entered in host.bridge: its argument,
\* what it returned, whether it threw, and how many objects the host had.
Bridged(kind, in, r) ==
    [r EXCEPT !.m.host.bridge =
                 Append(@, [kind |-> kind, in |-> in, out |-> r.v,
                            threw |-> r.exc # "none", natives |-> Len(host.natives),
                            heap |-> Len(heap)])]

\* var o = {};
BridgeCreate ==
    /\ BridgeCall /\ Objects = {}
    /\ Let(createObjectProto(This, OBJECT_PROTO), LAMBDA m1 :
           Ran(Thrown(setValue(m1, Ref(SCOPE_REFERENCE, "o"), Obj(New_(m1))))))

\* obj.name = val; a key that the statement adds is entered in host.inserted.
BridgeAssign ==
    /\ BridgeCall
    /\ \E obj \in BridgeObjects, name \in BridgeNames,
          val \in {Num(5)} \cup {Obj(o) : o \in Objects} :
         Let(Thrown(setValue(This, Ref(Obj(obj), name), val)), LAMBDA r :
             Ran(IF In(r.m.heap[obj].properties, name) /\ ~In(heap[obj].properties, name)
                 THEN [r EXCEPT !.m.host.inserted = Append(@, [o |-> obj, k |-> name])]
                 ELSE r))

\* Object.defineProperty(Object.prototype, "x", {get: getVal, configurable: true});
BridgeDefineProperty ==
    /\ BridgeCall /\ ~In(heap[OBJECT_PROTO].properties, "x")
    /\ Ran(Thrown(defineProperty(This, Obj(OBJECT_PROTO), "x",
               [get |-> Get(heap[GLOBAL].properties, "getVal"), configurable |-> TRUE])))

\* The host: interpreter.setProperty(globalObject, "o", nativeToPseudo(v)).
BridgeImport ==
    /\ BridgeCall /\ Objects = {}
    /\ \E j \in HostValues :
         Let(hostValue(This, j), LAMBDA h :
             Ran(Thrown(Bind(Bridged("nativeToPseudo", h.v, nativeToPseudo(h.m, h.v)),
                             LAMBDA r : setProperty(r.m, Obj(GLOBAL), "o", r.v,
                                                    NoDescriptor)))))

\* The host: pseudoToNative(o) for the guest's object.
BridgeExport ==
    /\ BridgeCall
    /\ \E o \in Objects :
         Ran(Bridged("pseudoToNative", Obj(o),
                     Thrown(pseudoToNative(This, Obj(o), [pseudo |-> << >>, native |-> << >>]))))

\* The host: pseudoToNative(nativeToPseudo(v)) for a JSON value v.
BridgeRoundTrip ==
    /\ BridgeCall
    /\ \E j \in JSONValues :
         Let(hostValue(This, j), LAMBDA h :
             Ran(Bridged("roundTrip", h.v,
                     Thrown(Bind(nativeToPseudo(h.m, h.v), LAMBDA r :
                         pseudoToNative(r.m, r.v, [pseudo |-> << >>, native |-> << >>]))))))

NextBridge ==
    \/ InitGlobal \/ InitArray \/ InitDate \/ InitRegExp \/ InitError
    \/ CreateErrorSubclass
    \/ InitFunc \/ InitObjects \/ PopulateScope \/ RunPolyfills \/ Queue
    \/ StepProgram \/ StepExpressionStatement \/ StepAssignmentExpression
    \/ StepMemberExpression \/ StepIdentifier \/ StepFunctionExpression \/ StepDone
    \/ BridgeCreate \/ BridgeAssign \/ BridgeDefineProperty
    \/ BridgeImport \/ BridgeExport \/ BridgeRoundTrip

\* The interpreter is constructed for the empty program.
SpecBridge == Starts({Program(<< >>)}) /\ [][NextBridge]_vars

----------------------------------------------------------------------------
(* Regular expressions in sandboxed mode (REGEXP_MODE 2).                   *)

ExecCall == ExprStmt(Call(Member(Lit(RegExpOf("a+", 0)), "exec"), <<Lit(Str("aac"))>>))

\* /a+/.exec("aac"); setVal(2);
ExecProgram == Program(<<ExecCall, CallStmt("setVal", <<Two>>)>>)

\* try { /a+/.exec("aac"); } catch (e) { setVal(e); }
TryExecProgram ==
    Program(<<Try(Block(<<ExecCall>>),
                  Catch("e", Block(<<CallStmt("setVal", <<Id("e")>>)>>)), NoNode)>>)

RegExpPrograms == {ExecProgram, TryExecProgram}

\* The hosts: Node (require, no Worker), a browser (Worker, no require) or
\* neither, and a RegExp that is fast or slow on the string.
RegExpHosts ==
    {[Blank.host EXCEPT !.Worker = e[1], !.require = e[2], !.slow = slow] :
        e \in {<<FALSE, TRUE>>, <<TRUE, FALSE>>, <<FALSE, FALSE>>}, slow \in BOOLEAN}

\* The timer of regExpTimeout fires for a worker that is still running.
RegExpTimeout ==
    /\ phase = "ready" /\ call.op = "idle" /\ host.slow
    /\ \E i \in DOMAIN host.workers :
         Commit(regExpTimeout(This, i).m)
    /\ result' = [NoResult EXCEPT !.op = "timer"]
    /\ UNCHANGED <<phase, code, ast, polyfills_, call>>

\* A worker answers before its timer fires.
WorkerMessage ==
    /\ phase = "ready" /\ call.op = "idle" /\ ~host.slow
    /\ \E i \in DOMAIN host.workers :
         Commit(onmessage(This, i).m)
    /\ result' = [NoResult EXCEPT !.op = "onmessage"]
    /\ UNCHANGED <<phase, code, ast, polyfills_, call>>

NextRegExp ==
    \/ InitGlobal \/ InitArray \/ InitDate \/ InitRegExp \/ InitError
    \/ CreateErrorSubclass
    \/ InitFunc \/ InitObjects \/ PopulateScope \/ RunPolyfills \/ Queue
    \/ CallStep \/ CallRun \/ StepDone \/ StepPaused \/ RunPaused
    \/ StepProgram \/ StepExpressionStatement \/ StepLiteral \/ StepIdentifier
    \/ StepCallExpression \/ StepAssignmentExpression
    \/ StepMemberExpression \/ StepFunctionExpression \/ StepBlockStatement
    \/ StepTryStatement \/ StepCatchClause
    \/ RegExpTimeout \/ WorkerMessage

SpecRegExp == StartsIn(RegExpPrograms, RegExpHosts) /\ [][NextRegExp]_vars

----------------------------------------------------------------------------
(* Two instances of the interpreter in one host.                            *)
(*                                                                         *)
(* The variables of the interpreter hold the fields of the instance the    *)
(* host is calling (host.current); the fields of the other instance are    *)
(* kept in host.other.  JavaScript runs one call at a time, so the host    *)
(* goes from one instance to the other between two calls.  What belongs to *)
(* the class and not to an instance stays where it is: S8Interpreter.vm,   *)
(* createWorker.blob_ and the functions of the host.                       *)

\* What the host keeps for one instance: the state of its initFunc's
\* natives, its callbacks, its objects, its workers.
HostOf(h) ==
    [val |-> h.val, calls |-> h.calls, cbs |-> h.cbs, resumed |-> h.resumed,
     natives |-> h.natives, bridge |-> h.bridge, inserted |-> h.inserted,
     slow |-> h.slow, workers |-> h.workers, timedOut |-> h.timedOut,
     res |-> h.res, timers |-> h.timers, fired |-> h.fired]

\* The instance the host is calling.
Instance ==
    [phase |-> phase, code |-> code, ast |-> ast, stack |-> stateStack,
     frames |-> frames, heap |-> heap, scopes |-> scopes, paused |-> paused_,
     value |-> value, getterStep |-> getterStep_, setterStep |-> setterStep_,
     polyfills |-> polyfills_, call |-> call, result |-> result, host |-> HostOf(host)]

\* An instance whose constructor has not begun.
NewInstance(program, slow) ==
    [phase |-> "new", code |-> program, ast |-> NoNode, stack |-> << >>,
     frames |-> << >>, heap |-> << >>, scopes |-> << >>, paused |-> FALSE,
     value |-> Undef, getterStep |-> FALSE, setterStep |-> FALSE,
     polyfills |-> FALSE, call |-> Idle, result |-> NoResult,
     host |-> HostOf([Blank.host EXCEPT !.slow = slow])]

\* The host turns to its other instance.
Switch ==
    /\ host.current # 0
    /\ call.op = "idle" /\ phase \in {"new", "ready"}
    /\ phase' = host.other.phase
    /\ code' = host.other.code
    /\ ast' = host.other.ast
    /\ stateStack' = host.other.stack
    /\ frames' = host.other.frames
    /\ heap' = host.other.heap
    /\ scopes' = host.other.scopes
    /\ paused_' = host.other.paused
    /\ value' = host.other.value
    /\ getterStep_' = host.other.getterStep
    /\ setterStep_' = host.other.setterStep
    /\ polyfills_' = host.other.polyfills
    /\ call' = host.other.call
    /\ result' = host.other.result
    /\ host' = [host EXCEPT !.current = 3 - @, !.other = Instance,
                            !.val = host.other.host.val,
                            !.calls = host.other.host.calls,
                            !.cbs = host.other.host.cbs,
                            !.resumed = host.other.host.resumed,
                            !.natives = host.other.host.natives,
                            !.bridge = host.other.host.bridge,
                            !.inserted = host.other.host.inserted,
                            !.slow = host.other.host.slow,
                            !.workers = host.other.host.workers,
                            !.timedOut = host.other.host.timedOut,
                            !.res = host.other.host.res,
                            !.timers = host.other.host.timers,
                            !.fired = host.other.host.fired]

\* The hosts of two instances: Node or a browser, the first instance about
\* to be constructed, the second one, for another program, not yet.
InstanceHosts ==
    {[Blank.host EXCEPT !.Worker = worker, !.require = ~worker, !.slow = slow[1],
                        !.current = 1, !.other = NewInstance(TryExecProgram, slow[2])] :
        worker \in BOOLEAN, slow \in BOOLEAN \X BOOLEAN}

\* The host converts a Date for its second instance, once:
\* nativeToPseudo(new Date(7)).
InstanceImport ==
    /\ BridgeCall /\ host.current = 2 /\ host.bridge = << >>
    /\ Let(hostValue(This, DateOf(7)), LAMBDA h :
           Ran(Thrown(Bridged("nativeToPseudo", h.v, nativeToPseudo(h.m, h.v)))))

NextInstances ==
    \/ InitGlobal \/ InitArray \/ InitDate \/ InitRegExp \/ InitError
    \/ CreateErrorSubclass
    \/ InitFunc \/ InitObjects \/ PopulateScope \/ RunPolyfills \/ Queue
    \/ CallStep \/ StepDone \/ StepPaused
    \/ StepProgram \/ StepExpressionStatement \/ StepLiteral \/ StepIdentifier
    \/ StepCallExpression \/ StepAssignmentExpression
    \/ StepMemberExpression \/ StepFunctionExpression \/ StepBlockStatement
    \/ StepTryStatement \/ StepCatchClause
    \/ RegExpTimeout \/ WorkerMessage
    \/ InstanceImport
    \/ Switch

SpecInstances == StartsIn({ExecProgram}, InstanceHosts) /\ [][NextInstances]_vars

----------------------------------------------------------------------------
(* Guest functions deferred by a timer of the host (test 'test defer').     *)

\* var doer = require("doer"); var get = require("get");
\* var defer = require("defer"); var log = require("log");
\* defer(function(){ defer(function(){ log(get()); doer()(); }); });
DeferProgram ==
    LET Require(name) == VarDecl(name, Call(Id("require"), <<Lit(Str(name))>>))
        inner == FuncExpr("", << >>,
                     Block(<<CallStmt("log", <<Call(Id("get"), << >>)>>),
                             ExprStmt(Call(Call(Id("doer"), << >>), << >>))>>))
        outer == FuncExpr("", << >>, Block(<<CallStmt("defer", <<inner>>)>>))
    IN  Program(<<Require("doer"), Require("get"), Require("defer"), Require("log"),
                  CallStmt("defer", <<outer>>)>>)

\* The oldest timer fires while no call of the host is in progress: its
\* function is queued and run() is called.
TimerFire ==
    /\ phase = "ready" /\ call.op = "idle"
    /\ host.timers # << >>
    /\ Let(Head(host.timers), LAMBDA timer :
           Commit(queueFunction(
               [This EXCEPT !.host.timers = Tail(@),
                            !.host.fired =
                                Append(@, [func |-> timer.func, by |-> timer.by,
                                           frame |-> Len(frames) + 1])],
               timer.func, Undef)))
    /\ call' = [Idle EXCEPT !.op = "run"]
    /\ result' = NoResult
    /\ UNCHANGED <<phase, code, ast, polyfills_>>

NextDefer ==
    \/ InitGlobal \/ InitArray \/ InitDate \/ InitRegExp \/ InitError
    \/ CreateErrorSubclass
    \/ InitFunc \/ InitObjects \/ PopulateScope \/ RunPolyfills \/ Queue
    \/ CallRun \/ StepDone
    \/ StepProgram \/ StepVariableDeclaration \/ StepExpressionStatement
    \/ StepLiteral \/ StepIdentifier \/ StepCallExpression
    \/ StepAssignmentExpression \/ StepMemberExpression
    \/ StepFunctionExpression \/ StepBlockStatement
    \/ TimerFire

SpecDefer == StartsIn({DeferProgram}, {Blank.host}) /\ [][NextDefer]_vars

----------------------------------------------------------------------------
(* Properties.                                                              *)

\* The names of the functions the host was called at, in order.
Fns(calls) == [i \in DOMAIN calls |-> calls[i].fn]

\* State s is a call that an asynchronous function suspended.
Suspended(s) ==
    /\ frames[s].node.type \in {"CallExpression", "NewExpression"}
    /\ frames[s].doneExec_
    /\ \E i \in DOMAIN host.cbs : host.cbs[i] = s

\* The value the latest callback invoked for state s was given.
Resumed(s) ==
    LET is == {i \in DOMAIN host.resumed : host.resumed[i].state = s}
    IN  host.resumed[CHOOSE i \in is : \A j \in is : j <= i].value

\* C1: while paused_ is set, a step() or run() in progress invokes no step
\* handler and no native function, leaves the state stack and its states as
\* they are, and returns true.
C1_PausedCallReturnsTrue ==
    [][(paused_ /\ call.op # "idle") =>
          /\ stateStack' = stateStack /\ frames' = frames /\ paused_'
          /\ host' = host
          /\ call'.op = "idle"
          /\ result' = [op |-> call.op, kind |-> "return", ret |-> TRUE,
                        err |-> NoErr, rounds |-> call.rounds]]_vars

\* step() was called while paused and has returned true without a handler.
C1_Witness ==
    /\ paused_ /\ call.op = "idle"
    /\ result.op = "step" /\ result.kind = "return" /\ result.ret
    /\ result.rounds = 0

\* C2: the call of an asynchronous function sets paused_, hands the host a
\* callback for the call's state and leaves the state on the stack; invoking
\* the callback with v stores v in that state and clears paused_; the step
\* that then completes the call gives v to the enclosing expression and
\* calls no function of the host.
C2_AsyncCallResumes ==
    [][/\ Len(host'.cbs) > Len(host.cbs) =>
            /\ paused_' /\ ~paused_
            /\ host'.cbs = Append(host.cbs, TopId(This))
            /\ stateStack' = stateStack
            /\ frames'[TopId(This)].doneExec_
            /\ \A i \in DOMAIN host.cbs : host.cbs[i] # TopId(This)
       /\ Len(host'.resumed) > Len(host.resumed) =>
            LET e == host'.resumed[Len(host'.resumed)]
            IN  /\ frames'[e.state].value = e.value
                /\ ~paused_'
                /\ stateStack' = stateStack /\ host'.calls = host.calls
       /\ (call.op # "idle" /\ ~paused_ /\ Len(stateStack) > 1
             /\ Suspended(TopId(This))) =>
            /\ stateStack' = SubSeq(stateStack, 1, Len(stateStack) - 1)
            /\ frames'[stateStack[Len(stateStack) - 1]].value = Resumed(TopId(This))
            /\ host'.calls = host.calls]_vars

\* setVal(wait(2)) has run to its end: wait was called once and setVal was
\* given the value of the callback.
C2_Witness ==
    /\ Fns(host.calls) = <<"wait", "setVal">>
    /\ host.val \in CallbackValues
    /\ host.calls[2].args = <<host.val>>

\* C3 as stated: run() returns false with paused_ false and the state
\* stack empty, or true with paused_ set and a suspended call pending.
C3_RunLeavesStackEmpty ==
    (phase = "ready" /\ call.op = "idle" /\ result.op = "run" /\ result.kind = "return") =>
        IF result.ret
        THEN paused_ /\ Len(stateStack) > 0 /\ Suspended(TopId(This))
        ELSE ~paused_ /\ stateStack = << >>

\* C3: run() returns false with paused_ false and the root Program state,
\* marked done, alone on the state stack, or true with paused_ set and the
\* call an asynchronous function suspended on top of the stack.
C3_RunOutcome ==
    (call.op = "idle" /\ result.op = "run" /\ result.kind = "return") =>
        IF result.ret
        THEN paused_ /\ Len(stateStack) > 0 /\ Suspended(TopId(This))
        ELSE /\ ~paused_
             /\ Len(stateStack) = 1
             /\ Top(This).node.type = "Program" /\ Top(This).done

\* run() has executed the user's program and has returned false.
C3_Witness ==
    /\ phase = "ready" /\ call.op = "idle"
    /\ result.op = "run" /\ result.kind = "return" /\ ~result.ret
    /\ result.rounds > 0

\* The state at depth i of the stack.
At_(i) == frames[stateStack[i]]
IsTry(i) == At_(i).node.type = "TryStatement"

\* The TryStatement at depth i would catch a throw from above it.
Catches(i) == IsTry(i) /\ IsNode(At_(i).node.handler) /\ ~At_(i).doneHandler_

\* The TryStatement at depth i holds a throw that its catch does not take.
HoldsThrow(i) == IsTry(i) /\ At_(i).cv.type = THROW /\ ~Catches(i)

\* The next handler is a ThrowStatement that throws its value, and no
\* TryStatement on the stack catches it.
UncaughtThrow ==
    /\ call.op # "idle" /\ ~paused_ /\ Len(stateStack) > 0
    /\ Top(This).node.type = "ThrowStatement" /\ Top(This).done_
    /\ \A i \in DOMAIN stateStack : ~Catches(i)

\* Only the root Program state is on the stack and it is marked done.
RootDone ==
    /\ Len(stateStack) = 1
    /\ Top(This).node.type = "Program" /\ Top(This).done

\* The host has called appendCode.
Appends == result'.op = "appendCode" /\ host'.ops = host.ops + 1

\* After a host error, or once the program is done, nothing runs unless
\* code is appended, and step() returns false.
StaysDone ==
    (phase = "ready" /\ RootDone /\ ~Appends) =>
        /\ stateStack' = stateStack
        /\ frames'[stateStack[1]] = frames[stateStack[1]]
        /\ host'.calls = host.calls
        /\ (call.op = "step" => result'.kind = "return" /\ ~result'.ret)

ThrownValue == result.err.thrown
IsThrownError == isa(This, ThrownValue, ERROR)

C6_NativeCalledOnceInOrder ==
    [][/\ (Len(host'.calls) > Len(host.calls) /\ Len(host'.cbs) = Len(host.cbs)) =>
            LET s == TopId(This)
                state == frames[s]
                c == host'.calls[Len(host'.calls)]
            IN  /\ Len(host'.calls) = Len(host.calls) + 1
                /\ call.op # "idle"
                /\ state.node.type \in {"CallExpression", "NewExpression"}
                /\ state.doneCallee_ >= 1 /\ ~state.doneExec_
                /\ ~state.doneArgs_ => state.n_ = Len(state.node.arguments)
                /\ c.args = IF state.doneArgs_ \/ state.n_ = 0 THEN state.arguments_
                            ELSE Append(state.arguments_, state.value)
                /\ heap[frames'[s].func_.v].nativeFunc = c.fn
                /\ frames'[s].doneCallee_ >= 2 /\ frames'[s].doneArgs_
                /\ frames'[s].doneExec_
                /\ frames'[s].value = c.ret
                /\ stateStack' = stateStack
       /\ \A i \in 1..(Len(stateStack) - 1) :
            (/\ At_(i).node.type \in {"CallExpression", "NewExpression"}
             /\ At_(i).doneCallee_ >= 2 /\ ~At_(i).doneArgs_) =>
                /\ At_(i).n_ > 0
                /\ Len(At_(i).arguments_) = At_(i).n_ - 1
                /\ \/ At_(i + 1).node = At_(i).node.arguments[At_(i).n_]
                   \/ \* the call of a getter that the argument has read
                      At_(i + 1).node = [type |-> "CallExpression", end |-> 0]
       /\ (/\ call.op # "idle" /\ ~paused_ /\ Len(stateStack) > 1
            /\ Top(This).node.type = "CallExpression"
            /\ Top(This).doneExec_ /\ ~Top(This).isConstructor) =>
                /\ stateStack' = SubSeq(stateStack, 1, Len(stateStack) - 1)
                /\ frames'[stateStack[Len(stateStack) - 1]].value = Top(This).value
                /\ host'.calls = host.calls]_vars

\* setVal(2); setVal(getVal() + 2, setVal(7)); has run: getVal was called
\* before the inner setVal, the outer setVal last, with both values.
C6_Witness ==
    /\ Fns(host.calls) = <<"setVal", "getVal", "setVal", "setVal">>
    /\ host.calls[2].ret = Num(2)
    /\ host.calls[4].args = <<Num(4), Undef>>
    /\ host.val = Num(4)

\* forEach is a property of Array.prototype.
HasForEach == In(heap[ARRAY_PROTO].properties, "forEach")

C8_AppendCodeQueues ==
    [][/\ Appends =>
            LET root == stateStack[1]
            IN  /\ stateStack' = stateStack /\ paused_' = paused_
                /\ host'.calls = host.calls /\ scopes' = scopes
                /\ IF result'.kind = "return"
                   THEN \E new \in Appended :
                          /\ new.type = "Program"
                          /\ frames' = [frames EXCEPT ![root].node.body = @ \o new.body,
                                                      ![root].done = FALSE]
                   ELSE /\ frames' = frames /\ heap' = heap
                        /\ result'.err = HostErr("Error",
                               Str("Expecting new AST to start with a Program node."))
       /\ \A new \in Appended :
            Len(stateStack) > 1 =>
                LET m == [This EXCEPT !.stack = Tail(@)]
                IN  appendCode(m, new) =
                        Raise(m, HostErr("Error",
                            Str("Expecting original AST to start with a Program node.")))
       /\ (/\ call.op # "idle" /\ ~paused_ /\ Len(stateStack) = 1
            /\ Top(This).node.type = "Program" /\ ~Top(This).done
            /\ Len(Top(This).node.body) > 0) =>
                /\ Len(stateStack') = 2
                /\ frames'[stateStack'[2]].node = Head(Top(This).node.body)
                /\ frames'[stateStack[1]].node.body = Tail(Top(This).node.body)]_vars

\* Code appended after the program had completed has run after it.
C8_Witness ==
    /\ Fns(host.calls) = <<"setVal", "getVal", "setVal", "setVal", "setVal">>
    /\ host.calls[5].args = <<Num(9)>>
    /\ host.ops = 1
    /\ RootDone

\* C9: a round of step() for a node without position is followed by another
\* round; step() returns true when it finds the interpreter paused or after
\* the round of a node with a position, and false when the stack is empty
\* or the root Program state is done.
C9_StepStopsAtUserNode ==
    [][/\ (/\ call.op = "step" /\ result'.kind # "throw"
            /\ \/ call'.rounds = call.rounds + 1
               \/ call'.op = "idle" /\ result'.rounds = call.rounds + 1) =>
                (Top(This).node.end = 0 <=> call'.op = "step" /\ call'.inStep)
       /\ (call.op = "step" /\ call'.op = "idle" /\ result'.kind = "return") =>
            IF result'.ret
            THEN \/ paused_ /\ result'.rounds = call.rounds /\ stateStack' = stateStack
                 \/ /\ result'.rounds = call.rounds + 1
                    /\ Top(This).node.end # 0
            ELSE /\ Len(stateStack) = 0 \/ (Top(This).node.type = "Program" /\ Top(This).done)
                 /\ stateStack' = stateStack]_vars

\* One step() has run several handlers, for nodes without position first.
C9_Witness ==
    /\ call.op = "idle" /\ result.op = "step" /\ result.kind = "return"
    /\ result.ret /\ result.rounds > 2

\* C10: the length of every array is an integer from 0 to 2^32 - 1 and is
\* greater than every integer key (an array index, 0 to 2^32 - 2) among the
\* properties of the array.
C10_ArrayLengthBoundsKeys ==
    \A a \in Arrays :
        LET length == Get(heap[a].properties, "length")
        IN  /\ length.t = "number"
            /\ length.v >= 0 /\ length.v <= Modulus - 1
            /\ \A k \in Keys(heap[a].properties) :
                   legalArrayIndex(k) # NotAnIndex => legalArrayIndex(k) < length.v

\* C11: a key of an object is a data property or an accessor, never both:
\* a key that has a getter or a setter has no stored data value, so that
\* taking the getter away cannot bring an earlier value back.
C11_DataOrAccessor ==
    \A o \in Objects :
        \A k \in DOMAIN heap[o].getter \cup DOMAIN heap[o].setter :
            Get(heap[o].properties, k) = Undef

\* C12: no statement adds an own key to an array that has been made
\* non-extensible, and Object.defineProperty still redefines each of its
\* writable and configurable keys, whatever the value the key holds.
C12_NonExtensibleKeepsKeys ==
    [][\A a \in Arrays :
         heap[a].preventExtensions =>
            /\ Keys(heap'[a].properties) \subseteq Keys(heap[a].properties)
            /\ \A k \in Keys(heap[a].properties), d \in Descriptors :
                 (At(heap[a].properties, k).w /\ At(heap[a].properties, k).c) =>
                    LET r == defineProperty(This, Obj(a), k, d)
                    IN  k = "length" \/
                        (/\ r.exc = "none"
                         /\ Get(r.m.heap[a].properties, k) = d.value)]_vars

\* A walk along proto from object id of heap h reaches null within fuel steps.
RECURSIVE ProtoWalkEnds(_, _, _)
ProtoWalkEnds(h, id, fuel) ==
    id = 0 \/ (fuel > 0 /\ ProtoWalkEnds(h, h[id].proto, fuel - 1))

\* C13: after every step the walk along proto from any object ends at null;
\* a new object has null or an object that exists already as its proto
\* (the global object, created first, is given Object.prototype by
\* initGlobal), and once the interpreter is constructed no proto is assigned
\* again.
C13_PrototypeWalksEnd ==
    [][/\ \A id \in DOMAIN heap' : ProtoWalkEnds(heap', id, Len(heap'))
       /\ \A id \in DOMAIN heap' \ DOMAIN heap :
            IF id = GLOBAL THEN heap'[id].proto = OBJECT_PROTO ELSE heap'[id].proto < id
       /\ phase = "ready" =>
            \A id \in DOMAIN heap : heap'[id].proto = heap[id].proto]_vars

\* Guest code has created an object whose prototype is another object that
\* guest code created.
C13_Witness ==
    \E o \in Objects, p \in Objects : heap[o].proto = p

\* C14: for every JSON value v of the host and in every state of the
\* interpreter, pseudoToNative(nativeToPseudo(v)) returns a value that is
\* deeply equal to v.
C14_RoundTripEqual ==
    \A i \in DOMAIN host.bridge :
        host.bridge[i].kind = "roundTrip" =>
            /\ ~host.bridge[i].threw
            /\ DeepEqual(host.natives, host.bridge[i].in, host.bridge[i].out,
                         Len(host.natives))

\* The keys that guest statements added to object o, in the order of the
\* statements.
InsertionOrder(inserted, o) ==
    Let(SelectSeq(inserted, LAMBDA e : e.o = o), LAMBDA sel :
        [i \in 1..Len(sel) |-> sel[i].k])

\* The order in which the host enumerates keys that were added in the order
\* of keys: integer keys first, ascending, then the others as added.
HostOrder(keys) ==
    KeysOf(MembersBag(keys, [i \in DOMAIN keys |-> Undef]), LAMBDA p : TRUE)

Last(seq) == seq[Len(seq)]

\* This step is a call pseudoToNative(o), entered as the last of host.bridge.
Exports == Len(host'.bridge) > Len(host.bridge) /\ Last(host'.bridge).kind = "pseudoToNative"

\* Guest statements made plain object o and added every key it has.
GuestMade(o) ==
    /\ heap[o].proto = OBJECT_PROTO /\ heap[o].class = "Object"
    /\ Keys(heap[o].properties) = {host.inserted[i].k :
                                     i \in {n \in DOMAIN host.inserted : host.inserted[n].o = o}}

\* The host object e.out has the stored value of each enumerable key of the
\* guest object e.in, converted: a primitive as it is, an object as an
\* object of the host.
ExportsValues(e) ==
    /\ ~e.threw /\ IsNative(e.out)
    /\ host'.natives[e.out.v].class = "Object"
    /\ Keys(host'.natives[e.out.v].properties)
         = {k \in Keys(heap[e.in.v].properties) : At(heap[e.in.v].properties, k).e}
    /\ \A k \in Keys(host'.natives[e.out.v].properties) :
         Let(Get(heap[e.in.v].properties, k), LAMBDA stored :
         Let(At(host'.natives[e.out.v].properties, k), LAMBDA p :
             /\ p.w /\ p.e /\ p.c
             /\ IF IsObj(stored) THEN IsNative(p.v) ELSE p.v = stored))

\* C15 as stated: pseudoToNative of a plain object of the guest returns a
\* host object with exactly the object's own enumerable keys, in the order
\* in which the guest program inserted them, each with the converted value.
C15_KeysInInsertionOrder ==
    [][(Exports /\ GuestMade(Last(host'.bridge).in.v)) =>
          Let(Last(host'.bridge), LAMBDA e :
              /\ ExportsValues(e)
              /\ KeysOf(host'.natives[e.out.v].properties, LAMBDA p : TRUE)
                   = InsertionOrder(host.inserted, e.in.v))]_vars

\* C15: pseudoToNative of a plain object of the guest returns a host object
\* with exactly the object's own enumerable keys, each with the converted
\* stored value; the keys are in the host's order, the integer keys first
\* and ascending, then the other keys in the order of their insertion.
C15_KeysInHostOrder ==
    [][(Exports /\ GuestMade(Last(host'.bridge).in.v)) =>
          Let(Last(host'.bridge), LAMBDA e :
              /\ ExportsValues(e)
              /\ KeysOf(host'.natives[e.out.v].properties, LAMBDA p : TRUE)
                   = HostOrder(InsertionOrder(host.inserted, e.in.v)))]_vars

\* The guest added x, then 1, to an object that pseudoToNative returned as
\* a host object with the keys 1, x.
C15_Witness ==
    \E i \in DOMAIN host.bridge :
        /\ host.bridge[i].kind = "pseudoToNative" /\ ~host.bridge[i].threw
        /\ InsertionOrder(host.inserted, host.bridge[i].in.v) = <<"x", "1">>
        /\ KeysOf(host.natives[host.bridge[i].out.v].properties, LAMBDA p : TRUE)
             = <<"1", "x">>

\* pseudoToNative follows key k of guest object v: an index below the length
\* of an array, an own enumerable key of another object; it follows no key
\* of a RegExp or a Date.
Follows(m, v, k) ==
    /\ IsObj(v) /\ ~isa(m, v, REGEXP) /\ ~isa(m, v, DATE)
    /\ IF isa(m, v, ARRAY)
       THEN /\ legalArrayIndex(k) # NotAnIndex
            /\ Below(legalArrayIndex(k), getProperty(m, v, "length").v)
            /\ hasProperty(m, v, k)
       ELSE In(m.heap[v.v].properties, k) /\ At(m.heap[v.v].properties, k).e

\* The guest value that key k of guest object v leads pseudoToNative to.
GuestChild(m, v, k) ==
    IF isa(m, v, ARRAY) THEN getProperty(m, v, k).v ELSE Get(m.heap[v.v].properties, k)

\* What the path of keys leads to from guest value v, and from host value v;
\* undefined when a key is missing or not followed.
RECURSIVE GuestWalk(_, _, _)
GuestWalk(m, v, path) ==
    IF path = << >> THEN v
    ELSE IF Follows(m, v, Head(path))
    THEN GuestWalk(m, GuestChild(m, v, Head(path)), Tail(path))
    ELSE Undef
RECURSIVE NativeWalk(_, _, _)
NativeWalk(natives, v, path) ==
    IF path = << >> THEN v
    ELSE IF IsNative(v) /\ In(natives[v.v].properties, Head(path))
    THEN NativeWalk(natives, Get(natives[v.v].properties, Head(path)), Tail(path))
    ELSE Undef

\* Guest object v was converted to host object w, and above are the pairs
\* of guest and host object from the root down to this pair: a key of v
\* that leads back to a guest object of above leads, from w, to the host
\* object paired with it, and likewise everywhere below v.
RECURSIVE SameCycles(_, _, _, _, _)
SameCycles(m, natives, v, w, above) ==
    \A k \in {n \in Keys(m.heap[v.v].properties) : Follows(m, v, n)} :
        Let(GuestChild(m, v, k), LAMBDA gc :
        Let(Get(natives[w.v].properties, k), LAMBDA nc :
            IF ~IsObj(gc) \/ isa(m, gc, REGEXP) \/ isa(m, gc, DATE) THEN TRUE
            ELSE IF \E i \in DOMAIN above : above[i][1] = gc
            THEN \E i \in DOMAIN above : above[i] = <<gc, nc>>
            ELSE /\ IsNative(nc)
                 /\ SameCycles(m, natives, gc, nc, Append(above, <<gc, nc>>))))

\* C16: pseudoToNative returns for every object graph of the guest, cyclic
\* ones included, and an object that is reached again from its own
\* descendants is the same host object in the result, which has the cycle.
C16_CyclesTerminate ==
    [][Exports =>
          Let(Last(host'.bridge), LAMBDA e :
              /\ ~e.threw
              /\ IsNative(e.out)
              /\ SameCycles(This, host'.natives, e.in, e.out, <<<<e.in, e.out>>>>))]_vars

\* pseudoToNative returned for an object o whose array o.k holds o: the
\* result's array holds the result.
C16_Witness ==
    \E i \in DOMAIN host.bridge :
        Let(host.bridge[i], LAMBDA e :
            /\ e.kind = "pseudoToNative" /\ ~e.threw
            /\ GuestWalk(This, e.in, <<"k", "1">>) = e.in
            /\ host.natives[e.out.v].class = "Object"
            /\ IsNative(NativeWalk(host.natives, e.out, <<"k">>))
            /\ NativeWalk(host.natives, e.out, <<"k">>) # e.out
            /\ NativeWalk(host.natives, e.out, <<"k", "1">>) = e.out)

\* The host objects that are the data of objects of the guest.
DataOf(h) == {h[o].data.v : o \in {i \in DOMAIN h : IsNative(h[i].data)}}

\* C17: what nativeToPseudo and pseudoToNative return shares no mutable
\* structure with their argument: the host objects of a result are new, they
\* are not the data of an object of the guest, the data of no object of the
\* guest is a host object of the argument, and a guest object returned is new.
C17_NoSharedStructure ==
    [][Len(host'.bridge) > Len(host.bridge) =>
          Let(Last(host'.bridge), LAMBDA e :
              /\ NativesOf(host'.natives, e.out)
                   \cap (1..Len(host.natives) \cup DataOf(heap')
                           \cup NativesOf(host'.natives, e.in)) = {}
              /\ NativesOf(host'.natives, e.in) \cap DataOf(heap') = {}
              /\ IsObj(e.out) => e.out.v > Len(heap))]_vars

\* A Date of the host was imported, and the guest's Date exported again.
C17_Witness ==
    \E i \in DOMAIN host.bridge, j \in DOMAIN host.bridge :
        /\ host.bridge[i].kind = "nativeToPseudo" /\ host.bridge[j].kind = "pseudoToNative"
        /\ host.bridge[j].in = host.bridge[i].out
        /\ IsNative(host.bridge[j].out)
        /\ host.natives[host.bridge[j].out.v].class = "Date"
        /\ host.natives[host.bridge[j].out.v].data = host.natives[host.bridge[i].in.v].data

\* This step is the time-out of the regular expression of a call.
TimesOut == Len(host'.timedOut) > Len(host.timedOut)

\* The try statements around the state on top of the stack, innermost last.
TriesAround == SelectSeq(stateStack, LAMBDA s : frames[s].node.type = "TryStatement")

\* Value v is an Error of the guest whose message has the source of /a+/.
IsTimeoutError(h, v) ==
    /\ IsObj(v) /\ h[v.v].class = "Error"
    /\ Get(h[v.v].properties, "message") = Str("RegExp Timeout: /a+/")

\* What the time-out of this step does: the suspended call gets null and
\* paused_ is cleared, and an Error with the source of the pattern is thrown
\* at the call: the innermost enclosing try statement of the guest gets it,
\* and without one the host gets a host error with that message.
TimeoutThrows ==
    /\ ~paused_'
    /\ frames'[Last(host'.timedOut)].value = Null
    /\ IF TriesAround # << >>
       THEN /\ stateStack'[Len(stateStack')] = Last(TriesAround)
            /\ frames'[Last(TriesAround)].cv.type = THROW
            /\ IsTimeoutError(heap', frames'[Last(TriesAround)].cv.value)
            /\ result'.kind # "throw"
       ELSE /\ result'.kind = "throw"
            /\ result'.err.message = Str("RegExp Timeout: /a+/")

\* C18: when the regular expression of exec times out in sandboxed mode, the
\* suspended call is resumed with null and a guest Error with the source of
\* the pattern is thrown at the call: an enclosing try/catch of the guest
\* catches it, and without one the error reaches the host as a host error.
C18_TimeoutThrows == [][TimesOut => TimeoutThrows]_vars

\* The same where Node's vm module runs the regular expression.
TimeoutThrowsInVm == [][(TimesOut /\ host'.vm) => TimeoutThrows]_vars

\* The handler step() calls for the state on top of the stack.
Handler(m) ==
    CASE Top(m).node.type = "Program" -> stepProgram(m)
      [] Top(m).node.type = "ExpressionStatement" -> stepExpressionStatement(m)
      [] Top(m).node.type = "Literal" -> stepLiteral(m)
      [] Top(m).node.type = "Identifier" -> stepIdentifier(m)
      [] Top(m).node.type = "CallExpression" -> stepCallExpression(m)
      [] Top(m).node.type = "BinaryExpression" -> stepBinaryExpression(m)
      [] Top(m).node.type = "AssignmentExpression" -> stepAssignmentExpression(m)
      [] Top(m).node.type = "MemberExpression" -> stepMemberExpression(m)
      [] Top(m).node.type = "FunctionExpression" -> stepFunctionExpression(m)
      [] Top(m).node.type = "BlockStatement" -> stepBlockStatement(m)
      [] Top(m).node.type = "ReturnStatement" -> stepReturnStatement(m)
      [] Top(m).node.type = "ThrowStatement" -> stepThrowStatement(m)
      [] Top(m).node.type = "VariableDeclaration" -> stepVariableDeclaration(m)
      [] Top(m).node.type = "TryStatement" -> stepTryStatement(m)
      [] Top(m).node.type = "CatchClause" -> stepCatchClause(m)

\* The values the locations of the class can have in host h, whatever the
\* instances of h have done: S8Interpreter.vm is loaded only where there is
\* no Worker and require gives the module, createWorker.blob_ is made only
\* where there is a Worker, Date.now has no id or the id of an instance.
ClassStates(h) ==
    [vm : IF ~h.Worker /\ h.require THEN BOOLEAN ELSE {FALSE},
     blob_ : IF h.Worker THEN BOOLEAN ELSE {FALSE},
     ids : {{}, h.ids, {[func |-> "Date.now", id |-> 0]}}]

\* Instance m in a host whose class has state s.
InClass(m, s) == [m EXCEPT !.host.vm = s.vm, !.host.blob_ = s.blob_, !.host.ids = s.ids]

\* The instance m without what belongs to the class.
Own(m) == [m EXCEPT !.host = HostOf(@)]

\* Two outcomes of a handler are the same for the instance: both return
\* the same, or both throw the same, and leave the same instance.
SameOutcome(a, b) ==
    /\ a.exc = b.exc
    /\ a.exc = "none" => a.v = b.v
    /\ a.err = b.err
    /\ Own(a.m) = Own(b.m)

\* The handler that is about to run has the same outcome for the instance
\* in every state of the class.
AsIfAlone ==
    (phase = "ready" /\ Running) =>
        \A s \in ClassStates(host) :
            SameOutcome(Thrown(Handler(InClass(This, s))), Thrown(Handler(This)))

\* A step of the host with two instances: turning to the other instance
\* exchanges the two and changes neither, and any other step leaves the
\* other instance as it is.
KeepsOther ==
    IF host'.current # host.current
    THEN Instance' = host.other /\ host'.other = Instance
    ELSE host'.other = host.other

\* C19 as the specification has it: no operation on one instance writes a
\* location that the other instance reads or writes.
C19_NoSharedLocation ==
    \A a \in host.accesses, b \in host.accesses :
        (a.instance # b.instance /\ a.location = b.location) => ~a.write /\ ~b.write

\* C19: two instances share only locations of the class that change no
\* behaviour (S8Interpreter.vm and createWorker.blob_, made once and kept,
\* and the id of a function of the host, which nothing reads): under any
\* interleaving of construction, steps and bridge calls no operation on one
\* instance changes a field of the other, and each handler has the outcome
\* it would have if the instance ran alone.
C19_Independent == [][host.current # 0 => KeepsOther /\ AsIfAlone]_vars

\* Both instances have been stepped to the end of their programs in Node:
\* the first has loaded the vm module, which the second read and used.
C19_Witness ==
    /\ host.current = 2
    /\ [instance |-> 1, location |-> "S8Interpreter.vm", write |-> TRUE] \in host.accesses
    /\ [instance |-> 2, location |-> "S8Interpreter.vm", write |-> FALSE] \in host.accesses
    /\ [instance |-> 2, location |-> "S8Interpreter.vm", write |-> TRUE] \notin host.accesses
    /\ host.other.host.val = Num(2)
    /\ Len(stateStack) = 1 /\ Top(This).done
    /\ IF host.slow THEN IsTimeoutError(heap, host.val) ELSE host.val = Num(0)

\* The functions the guest has handed to defer.
Deferred == {host.calls[i].args[1] : i \in {c \in DOMAIN host.calls : host.calls[c].fn = "defer"}}

\* The frames in which a function handed to defer has been called.
DeferredCalls == {s \in DOMAIN frames : frames[s].doneExec_ /\ frames[s].func_ \in Deferred}

\* Every call of a deferred function is the call that a fired timer queued,
\* and the timer was set before that timer fired, in an earlier run.
RunsByItsTimer ==
    \A s \in DeferredCalls :
        \E i \in DOMAIN host.fired :
            /\ host.fired[i].frame = s
            /\ host.fired[i].func = frames[s].func_
            /\ host.fired[i].by < i

\* Each timer that fired has queued one call, and no two the same; when the
\* run it triggered is over, that call has been made.
OnePerFire ==
    /\ \A i, j \in DOMAIN host.fired : host.fired[i].frame = host.fired[j].frame => i = j
    /\ Cardinality(DeferredCalls) <= Len(host.fired)
    /\ call.op = "idle" => Cardinality(DeferredCalls) = Len(host.fired)

\* The test's expectations of `res`: empty until the second timer has
\* fired, 'hi' before 'bla', and 'hibla' when both runs are over.
InOrder ==
    /\ host.res \in {"", "hi", "hibla"}
    /\ Len(host.fired) < 2 => host.res = ""
    /\ (Len(host.fired) = 2 /\ call.op = "idle") => host.res = "hibla"

\* The call of defer by this step sets a timer and nothing else: no function
\* is queued and the call of the host in progress stays the one it was.
SetsTimer == Len(host'.timers) > Len(host.timers)
OnlySetsTimer ==
    /\ host'.fired = host.fired
    /\ call.op = "run" /\ call'.op = "run"
    /\ DeferredCalls' = DeferredCalls

\* C20: a guest function handed to defer is never called in the run that
\* handed it over: it is called only after its timer has fired, by the
\* run() of that timer; with two nested deferrals each timer that fires
\* runs exactly one deferred function, the side effects come in the order
\* of registration, and the native starts no step() or run() of its own.
C20_DeferredRunsLater ==
    [][/\ RunsByItsTimer' /\ OnePerFire' /\ InOrder'
       /\ SetsTimer => OnlySetsTimer]_vars

\* Both timers have fired and both runs are over.
C20_Witness ==
    /\ Len(host.fired) = 2 /\ host.timers = << >> /\ call.op = "idle"
    /\ Cardinality(DeferredCalls) = 2
    /\ host.res = "hibla"
    /\ result.kind = "return"

----------------------------------------------------------------------------
(* Control flow: completion values, try/catch/finally, return, loops.       *)

\* var f = function () { 1; };
DeclareF == VarDecl("f", FuncExpr("", << >>, Block(<<ExprStmt(Lit(Num(1)))>>)))
SixTimesSeven == ExprStmt(Bin("*", Lit(Num(6)), Lit(Num(7))))

ValuePrograms ==
    { \* 6 * 7
      Program(<<SixTimesSeven>>),
      \* var f = function () { 1; }; 6 * 7; f();
      Program(<<DeclareF, SixTimesSeven, ExprStmt(Call(Id("f"), << >>))>>),
      \* var f = function () { 1; }; 6 * 7; var y = f();
      Program(<<DeclareF, SixTimesSeven, VarDecl("y", Call(Id("f"), << >>))>>) }

\* var thrower = function () { throw typeErr; };
DeclareThrower ==
    VarDecl("thrower", FuncExpr("", << >>, Block(<<Throw(Id("typeErr"))>>)))
CatchE == Catch("e", Block(<<CallStmt("setVal", <<Id("e")>>)>>))

\* Programs whose throws all happen in the block of a try with a catch.
CatchPrograms ==
    { \* try { throw 1; } catch (e) { setVal(e); }  setVal(2);
      Program(<<Try(Block(<<Throw(Lit(Num(1)))>>), CatchE, NoNode),
                CallStmt("setVal", <<Two>>)>>),
      \* try { missing(); } catch (e) { setVal(e); }  setVal(2);
      Program(<<Try(Block(<<CallStmt("missing", << >>)>>), CatchE, NoNode),
                CallStmt("setVal", <<Two>>)>>),
      \* try { setVal(Array(-1)); } catch (e) { setVal(e); }  setVal(2);
      Program(<<Try(Block(<<CallStmt("setVal", <<Call(Id("Array"), <<Lit(Num(-1))>>)>>)>>),
                    CatchE, NoNode),
                CallStmt("setVal", <<Two>>)>>),
      \* var thrower = ...; try { setVal(thrower()); } catch (e) { setVal(e); }  setVal(2);
      Program(<<DeclareThrower,
                Try(Block(<<CallStmt("setVal", <<Call(Id("thrower"), << >>)>>)>>),
                    CatchE, NoNode),
                CallStmt("setVal", <<Two>>)>>),
      \* try { try { throw 1; } finally { setVal(3); } } catch (e) { setVal(e); }
      \* setVal(2);
      Program(<<Try(Block(<<Try(Block(<<Throw(Lit(Num(1)))>>), NoNode,
                                Block(<<CallStmt("setVal", <<Lit(Num(3))>>)>>))>>),
                    CatchE, NoNode),
                CallStmt("setVal", <<Two>>)>>) }

SetVal3 == Block(<<CallStmt("setVal", <<Lit(Num(3))>>)>>)
DeclareFn(name, body) == VarDecl(name, FuncExpr("", << >>, Block(body)))
SetValOf(name) == CallStmt("setVal", <<Call(Id(name), << >>)>>)

\* Programs with a try statement that has a finalizer.
FinallyPrograms ==
    { \* try { setVal(1); } finally { setVal(3); }  setVal(2);
      Program(<<Try(Block(<<CallStmt("setVal", <<Lit(Num(1))>>)>>), NoNode, SetVal3),
                CallStmt("setVal", <<Two>>)>>),
      \* try { throw 1; } catch (e) { setVal(e); } finally { setVal(3); }  setVal(2);
      Program(<<Try(Block(<<Throw(Lit(Num(1)))>>), CatchE, SetVal3),
                CallStmt("setVal", <<Two>>)>>),
      \* try { throw 1; } catch (e) { throw 4; } finally { setVal(3); }  setVal(2);
      Program(<<Try(Block(<<Throw(Lit(Num(1)))>>),
                    Catch("e", Block(<<Throw(Lit(Num(4)))>>)), SetVal3),
                CallStmt("setVal", <<Two>>)>>),
      \* var f = function () { try { return 5; } finally { setVal(3); } }; setVal(f());
      Program(<<DeclareFn("f", <<Try(Block(<<Return(Lit(Num(5)))>>), NoNode, SetVal3)>>),
                SetValOf("f")>>),
      \* var f = function () { try { throw 1; } finally { return 5; } }; setVal(f());
      Program(<<DeclareFn("f", <<Try(Block(<<Throw(Lit(Num(1)))>>), NoNode,
                                     Block(<<Return(Lit(Num(5)))>>))>>),
                SetValOf("f")>>),
      \* try { } catch (e) { setVal(e); } finally { throw 1; }  setVal(2);
      Program(<<Try(Block(<< >>), CatchE, Block(<<Throw(Lit(Num(1)))>>)),
                CallStmt("setVal", <<Two>>)>>) }

\* Programs with functions that return.
ReturnPrograms ==
    { \* var f = function () { return 5; setVal(3); }; setVal(f());
      Program(<<DeclareFn("f", <<Return(Lit(Num(5))), CallStmt("setVal", <<Lit(Num(3))>>)>>),
                SetValOf("f")>>),
      \* var g = function () { { return 5; } };
      \* var f = function () { setVal(g()); return 6; }; setVal(f());
      Program(<<DeclareFn("g", <<Block(<<Return(Lit(Num(5)))>>)>>),
                DeclareFn("f", <<SetValOf("g"), Return(Lit(Num(6)))>>),
                SetValOf("f")>>),
      \* var f = function () { return; }; setVal(2); setVal(f());
      Program(<<DeclareFn("f", <<Return(NoNode)>>), CallStmt("setVal", <<Two>>),
                SetValOf("f")>>) }

SetValStmt(n) == CallStmt("setVal", <<Lit(Num(n))>>)
\* getVal() === 2
ValIsTwo == Bin("===", Call(Id("getVal"), << >>), Two)
True == Lit(Bool(TRUE))

\* Programs with loops, switches and labels that break and continue.
BreakPrograms ==
    { \* setVal(2); while (getVal() === 2) { setVal(3); break; setVal(4); }  setVal(5);
      Program(<<SetValStmt(2),
                While(ValIsTwo, Block(<<SetValStmt(3), Break(""), SetValStmt(4)>>)),
                SetValStmt(5)>>),
      \* setVal(2); while (getVal() === 2) { setVal(3); continue; setVal(4); }  setVal(5);
      Program(<<SetValStmt(2),
                While(ValIsTwo, Block(<<SetValStmt(3), Continue(""), SetValStmt(4)>>)),
                SetValStmt(5)>>),
      \* do { setVal(2); if (getVal() === 2) continue; setVal(4); } while (false);
      \* setVal(5);
      Program(<<DoWhile(Block(<<SetValStmt(2), If(ValIsTwo, Continue(""), NoNode),
                                SetValStmt(4)>>), Lit(Bool(FALSE))),
                SetValStmt(5)>>),
      \* for (setVal(2); getVal() === 2; setVal(3)) { continue; }  setVal(5);
      Program(<<For(ExprStmt(Call(Id("setVal"), <<Two>>)), ValIsTwo,
                    Call(Id("setVal"), <<Lit(Num(3))>>), Block(<<Continue("")>>)),
                SetValStmt(5)>>),
      \* outer: while (true) { while (true) { break outer; }  setVal(4); }  setVal(5);
      Program(<<Labeled("outer",
                    While(True, Block(<<While(True, Block(<<Break("outer")>>)),
                                        SetValStmt(4)>>))),
                SetValStmt(5)>>),
      \* setVal(2);
      \* outer: while (getVal() === 2) { while (true) { setVal(3); continue outer; } }
      \* setVal(5);
      Program(<<SetValStmt(2),
                Labeled("outer",
                    While(ValIsTwo,
                          Block(<<While(True, Block(<<SetValStmt(3),
                                                      Continue("outer")>>))>>))),
                SetValStmt(5)>>),
      \* while (true) { switch (2) { case 1: setVal(1); default: setVal(3);
      \*                             case 2: setVal(2); break; case 4: setVal(4); }
      \*                break; }
      \* setVal(5);
      Program(<<While(True,
                    Block(<<SwitchOn(Two,
                                <<Case(Lit(Num(1)), <<SetValStmt(1)>>),
                                  Case(NoNode, <<SetValStmt(3)>>),
                                  Case(Two, <<SetValStmt(2), Break("")>>),
                                  Case(Lit(Num(4)), <<SetValStmt(4)>>)>>),
                            Break("")>>)),
                SetValStmt(5)>>),
      \* setVal(2); while (getVal() === 2) { switch (7) { default: setVal(3); continue; } }
      \* setVal(5);
      Program(<<SetValStmt(2),
                While(ValIsTwo,
                      Block(<<SwitchOn(Lit(Num(7)),
                                  <<Case(NoNode, <<SetValStmt(3), Continue("")>>)>>)>>)),
                SetValStmt(5)>>),
      \* while (true) { try { break; } finally { setVal(3); }  setVal(4); }  setVal(5);
      Program(<<While(True, Block(<<Try(Block(<<Break("")>>), NoNode, SetVal3),
                                    SetValStmt(4)>>)),
                SetValStmt(5)>>),
      \* a: { setVal(3); break a; setVal(4); }  setVal(5);
      Program(<<Labeled("a", Block(<<SetValStmt(3), Break("a"), SetValStmt(4)>>)),
                SetValStmt(5)>>),
      \* a: try { break a; } finally { setVal(3); }  setVal(5);
      Program(<<Labeled("a", Try(Block(<<Break("a")>>), NoNode, SetVal3)),
                SetValStmt(5)>>) }

\* Programs that read and assign the accessor properties of box and kid.
BoxV == Member(Id("box"), "v")
KidV == Member(Id("kid"), "v")
Three == Lit(Num(3))
\* setVal(2); setVal(kid.v + 3);
ReadsKid == Program(<<SetValStmt(2), CallStmt("setVal", <<Bin("+", KidV, Three)>>)>>)
\* setVal(box.v = 5);
AssignsBox == Program(<<CallStmt("setVal", <<Assign("=", BoxV, Lit(Num(5)))>>)>>)
\* setVal(2); setVal(kid.v += 3);
AddsToKid == Program(<<SetValStmt(2), CallStmt("setVal", <<Assign("+=", KidV, Three)>>)>>)
\* setVal(2); box.v += (box.v = 7);
AddsAssigned ==
    Program(<<SetValStmt(2),
              ExprStmt(Assign("+=", BoxV, Assign("=", BoxV, Lit(Num(7)))))>>)

\* setVal(2); setVal(now);
ReadsNow == Program(<<SetValStmt(2), CallStmt("setVal", <<Id("now")>>)>>)

AccessorPrograms == {ReadsKid, AssignsBox, AddsToKid, AddsAssigned, ReadsNow}

\* try { new callee(); } catch (e) { setVal(e); }  setVal(2);
NewOf(callee) ==
    Program(<<Try(Block(<<ExprStmt(New(callee, << >>))>>), CatchE, NoNode), SetValStmt(2)>>)

\* Programs that apply `new` to a native function that is no constructor,
\* to a number, to null, to undefined, to an object that is no function,
\* and to a constructor.
NewPrograms ==
    {NewOf(Id("setVal")), NewOf(Lit(Num(5))), NewOf(Lit(Null)), NewOf(Id("undefined")),
     NewOf(Id("box")), NewOf(Id("TypeError"))}

\* var f = Array.prototype.forEach; delete window.Array;
\* try { f(2); } catch (e) { setVal(3); }  setVal(2);
DeletesArray ==
    Program(<<VarDecl("f", Member(Member(Id("Array"), "prototype"), "forEach")),
              ExprStmt(Unary("delete", Member(Id("window"), "Array"))),
              Try(Block(<<CallStmt("f", <<Two>>)>>), Catch("e", SetVal3), NoNode),
              SetValStmt(2)>>)

\* Programs that call a polyfill: it returns, or it throws because the guest
\* has deleted the global it reads.
\* try { setVal(Array.prototype.forEach(2)); } catch (e) { setVal(3); }
\* setVal(typeof Array);   delete Array;
PolyfillPrograms ==
    {DeletesArray,
     Program(<<Try(Block(<<CallStmt("setVal",
                              <<Call(Member(Member(Id("Array"), "prototype"), "forEach"),
                                     <<Two>>)>>)>>),
                   Catch("e", SetVal3), NoNode),
               CallStmt("setVal", <<Unary("typeof", Id("Array"))>>),
               ExprStmt(Unary("delete", Id("Array")))>>)}

ControlPrograms ==
    ValuePrograms \cup CatchPrograms \cup FinallyPrograms \cup ReturnPrograms
        \cup BreakPrograms \cup AccessorPrograms \cup NewPrograms
        \cup PolyfillPrograms

StepBreakStatement ==
    Handles("BreakStatement") /\ Round("BreakStatement", stepBreakStatement(This))
StepContinueStatement ==
    Handles("ContinueStatement") /\ Round("ContinueStatement", stepContinueStatement(This))
StepLabeledStatement ==
    Handles("LabeledStatement") /\ Round("LabeledStatement", stepLabeledStatement(This))
StepIfStatement ==
    Handles("IfStatement") /\ Round("IfStatement", stepConditionalExpression(This))
\* state.props_: null, or the names that are left of the snapshot.
NullProps == [null |-> TRUE, names |-> << >>]
Props(names) == [null |-> FALSE, names |-> names]

\* Object.getOwnPropertyNames(value) of a primitive: the indices of a string
\* and its length; propertyIsEnumerable holds of the indices.
PrimitiveNames(v) ==
    IF v.t = "string" THEN [i \in 1..Len(v.v) |-> NumStr(i - 1)] \o <<"length">>
    ELSE << >>

\* A gotPropName that does not look at the names already visited.
RECURSIVE gotPropNameUnvisited(_, _, _, _)
gotPropNameUnvisited(m, object_, props_, visited_) ==
    LET isObject == IsObj(object_)
        primitive == ~isObject /\ object_ # Null /\ object_ # Undef
        bag == IF isObject THEN m.heap[object_.v].properties ELSE EmptyBag
        props == IF ~props_.null THEN props_
                 ELSE IF isObject THEN Props(KeysOf(bag, LAMBDA p : TRUE))
                 ELSE Props(PrimitiveNames(object_))
        prop == Head(props.names)
        rest == Props(Tail(props.names))
        found(seen) == [object_ |-> object_, props_ |-> rest, visited_ |-> seen,
                        name_ |-> Str(prop)]
        proto == getPrototype(m, object_)
    IN  IF (isObject \/ primitive) /\ props.names # << >>
        THEN IF isObject
             THEN IF ~In(bag, prop)
                  THEN gotPropNameUnvisited(m, object_, rest, visited_)
                  ELSE IF ~At(bag, prop).e
                  THEN gotPropNameUnvisited(m, object_, rest, visited_ \cup {prop})
                  ELSE found(visited_ \cup {prop})
             ELSE IF prop = "length"
             THEN gotPropNameUnvisited(m, object_, rest, visited_ \cup {prop})
             ELSE found(visited_ \cup {prop})
        ELSE IF proto = 0
        THEN [object_ |-> Null, props_ |-> NullProps, visited_ |-> visited_,
              name_ |-> Undef]
        ELSE gotPropNameUnvisited(m, Obj(proto), NullProps, visited_)

\* The loop `gotPropName` of stepForInStatement, from the object, the
\* snapshot and the visited names of the state: the same three and name_
\* as the loop leaves them; object_ is null when the chain is exhausted.
RECURSIVE gotPropName(_, _, _, _)
gotPropName(m, object_, props_, visited_) ==
    LET isObject == IsObj(object_)
        primitive == ~isObject /\ object_ # Null /\ object_ # Undef
        bag == IF isObject THEN m.heap[object_.v].properties ELSE EmptyBag
        props == IF ~props_.null THEN props_
                 ELSE IF isObject THEN Props(KeysOf(bag, LAMBDA p : TRUE))
                 ELSE Props(PrimitiveNames(object_))
        prop == Head(props.names)
        rest == Props(Tail(props.names))
        found(seen) == [object_ |-> object_, props_ |-> rest, visited_ |-> seen,
                        name_ |-> Str(prop)]
        proto == getPrototype(m, object_)
    IN  IF (isObject \/ primitive) /\ props.names # << >>
        THEN IF isObject
             THEN IF ~In(bag, prop)
                  THEN \* "Property has been deleted in the loop."
                       gotPropName(m, object_, rest, visited_)
                  ELSE IF prop \in visited_
                  THEN \* "Already seen this property on a child."
                       gotPropName(m, object_, rest, visited_)
                  ELSE IF ~At(bag, prop).e
                  THEN \* "Skip non-enumerable property."
                       gotPropName(m, object_, rest, visited_ \cup {prop})
                  ELSE found(visited_ \cup {prop})
             ELSE IF prop = "length"
             THEN gotPropName(m, object_, rest, visited_ \cup {prop})
             ELSE found(visited_ \cup {prop})
        ELSE IF proto = 0
        THEN [object_ |-> Null, props_ |-> NullProps, visited_ |-> visited_,
              name_ |-> Undef]
        ELSE gotPropName(m, Obj(proto), NullProps, visited_)

\* The loops of the model declare their variable without an initializer, so
\* step one ("initialize a variable if exists") only sets doneInit_.
stepForInStatement(m) ==
    LET s == TopId(m)
        state == Top(m)
        node == state.node
        left == node.left
        declares == left.type = "VariableDeclaration"
        \* "Sixth and finally, execute the body if there was one."
        body(m1) ==
            Let([m1 EXCEPT !.frames[s].name_ = Undef,
                           !.frames[s].doneVariable_ = FALSE,
                           !.frames[s].doneSetter_ = FALSE], LAMBDA m2 :
                IF IsNode(node.body) THEN Spawn(m2, State(node.body, state.scope))
                ELSE Ret(m2, 0))
        \* "Fifth, set the variable."
        setter(m1) ==
            IF ~Top(m1).doneSetter_
            THEN Bind(setValue([m1 EXCEPT !.frames[s].doneSetter_ = TRUE],
                               Top(m1).variable_, Top(m1).name_), LAMBDA r :
                     IF r.m.setterStep
                     THEN createSetter_(r.m, r.v, Top(m1).variable_, Top(m1).name_)
                     ELSE body(r.m))
            ELSE body(m1)
        \* "Fourth, find the variable"
        variable(m1) ==
            IF ~Top(m1).doneVariable_
            THEN IF declares
                 THEN \* "Inline variable declaration: for (var x in y)"
                      setter([m1 EXCEPT
                                !.frames[s].doneVariable_ = TRUE,
                                !.frames[s].variable_ =
                                    Ref(SCOPE_REFERENCE, left.declarations[1].id.name)])
                 ELSE \* "Arbitrary left side: for (foo().bar in y)"
                      Spawn([m1 EXCEPT !.frames[s].doneVariable_ = TRUE,
                                       !.frames[s].variable_ = Undef],
                            [State(left, state.scope) EXCEPT !.components = TRUE])
            ELSE setter([m1 EXCEPT !.frames[s].variable_ =
                                       IF Truthy(@) THEN @ ELSE Top(m1).value])
        \* "Third, find the property name for this iteration."
        name(m1) ==
            IF Top(m1).name_ = Undef
            THEN Let(gotPropName(m1, Top(m1).object_, Top(m1).props_, Top(m1).visited_),
                     LAMBDA got :
                 Let([m1 EXCEPT !.frames[s].object_ = got.object_,
                                !.frames[s].props_ = got.props_,
                                !.frames[s].visited_ = got.visited_,
                                !.frames[s].name_ = got.name_], LAMBDA m2 :
                     IF got.name_ = Undef
                     THEN \* "Done, exit loop."
                          Ret(Pop(m2), 0)
                     ELSE variable(m2)))
            ELSE variable(m1)
    IN  IF ~state.doneObject_
        THEN \* "Second, look up the object."
             Spawn([m EXCEPT !.frames[s].doneInit_ = TRUE,
                             !.frames[s].doneObject_ = TRUE,
                             !.frames[s].variable_ =
                                 IF Truthy(@) THEN @ ELSE state.value],
                   State(node.right, state.scope))
        ELSE IF ~state.isLoop
        THEN \* "First iteration."
             name([m EXCEPT !.frames[s].isLoop = TRUE,
                            !.frames[s].object_ = state.value,
                            !.frames[s].visited_ = {},
                            !.frames[s].props_ = NullProps])
        ELSE name(m)

StepForInStatement ==
    Handles("ForInStatement") /\ Round("ForInStatement", stepForInStatement(This))
StepWhileStatement ==
    Handles("WhileStatement") /\ Round("WhileStatement", stepDoWhileStatement(This))
StepDoWhileStatement ==
    Handles("DoWhileStatement") /\ Round("DoWhileStatement", stepDoWhileStatement(This))
StepForStatement ==
    Handles("ForStatement") /\ Round("ForStatement", stepForStatement(This))
StepSwitchStatement ==
    Handles("SwitchStatement") /\ Round("SwitchStatement", stepSwitchStatement(This))
StepNewExpression ==
    Handles("NewExpression") /\ Round("NewExpression", stepCallExpression(This))
StepUnaryExpression ==
    Handles("UnaryExpression") /\ Round("UnaryExpression", stepUnaryExpression(This))

NextControl ==
    \/ InitGlobal \/ InitArray \/ InitDate \/ InitRegExp \/ InitError
    \/ CreateErrorSubclass
    \/ InitFunc \/ InitObjects \/ PopulateScope \/ RunPolyfills \/ Queue
    \/ CallStep \/ CallRun \/ StepDone
    \/ StepProgram \/ StepVariableDeclaration \/ StepExpressionStatement
    \/ StepLiteral \/ StepIdentifier \/ StepCallExpression \/ StepBinaryExpression
    \/ StepAssignmentExpression \/ StepMemberExpression
    \/ StepFunctionExpression \/ StepBlockStatement
    \/ StepReturnStatement \/ StepThrowStatement \/ StepTryStatement
    \/ StepCatchClause
    \/ StepBreakStatement \/ StepContinueStatement \/ StepLabeledStatement
    \/ StepIfStatement \/ StepWhileStatement \/ StepDoWhileStatement
    \/ StepForStatement \/ StepSwitchStatement \/ StepNewExpression
    \/ StepUnaryExpression

SpecControl == Starts(ControlPrograms) /\ [][NextControl]_vars

\* The user's program has run to its end without an error.
Completed ==
    /\ phase = "ready" /\ call.op = "idle" /\ RootDone
    /\ result.kind = "return"

\* The states of the expression statements of the program's own body, in
\* the order they were executed.
TopLevelStatements ==
    {s \in DOMAIN frames :
        /\ phase = "ready" /\ s > stateStack[1]
        /\ frames[s].node.type = "ExpressionStatement"
        /\ frames[s].scope = GLOBAL_SCOPE
        /\ \E i \in DOMAIN code.body : code.body[i] = frames[s].node}

LastTopLevel == CHOOSE s \in TopLevelStatements : \A t \in TopLevelStatements : t <= s

\* C21: after a program has run to completion, the interpreter's value is
\* the value of the last top-level expression statement the program
\* executed; expression statements inside called functions do not set it.
C21_ValueOfLastTopLevel ==
    (Completed /\ TopLevelStatements # {}) => value = frames[LastTopLevel].value

\* 6 * 7 has run to completion and the value is 42.
C21_Witness ==
    /\ Completed /\ code = Program(<<SixTimesSeven>>)
    /\ value = Num(42)

\* The depth of the topmost TryStatement beneath the state on top of the
\* stack, 0 if there is none.
TopTry ==
    LET ds == {i \in DOMAIN stateStack : IsTry(i) /\ i < Len(stateStack)}
    IN  IF ds = {} THEN 0 ELSE CHOOSE i \in ds : \A j \in ds : j <= i

\* This step throws a guest exception into the TryStatement at depth i.
ThrowsInto(i) ==
    /\ i \in DOMAIN stateStack /\ IsTry(i)
    /\ frames'[stateStack[i]].cv.type = THROW
    /\ frames'[stateStack[i]].cv # At_(i).cv

\* The TryStatement on top of the stack holds a throw for its catch clause.
Delivers ==
    /\ call.op # "idle" /\ ~paused_ /\ Len(stateStack) > 0
    /\ Catches(Len(stateStack)) /\ Top(This).doneBlock_ /\ Top(This).cv.type = THROW

\* The CatchClause on top of the stack is about to run its body.
Binds ==
    /\ call.op # "idle" /\ ~paused_ /\ Len(stateStack) > 0
    /\ Top(This).node.type = "CatchClause" /\ ~Top(This).done_

\* The TryStatement on top of the stack has run its catch clause and has
\* nothing left to do.
Leaves ==
    /\ call.op # "idle" /\ ~paused_ /\ Len(stateStack) > 0
    /\ IsTry(Len(stateStack)) /\ Top(This).doneHandler_ /\ Top(This).cv = NoCv
    /\ ~IsNode(Top(This).node.finalizer)

\* A throw pops the frames above the nearest TryStatement and no other,
\* and leaves the thrown value there.
PopsToTry ==
    \A i \in DOMAIN stateStack :
        ThrowsInto(i) =>
            /\ i = TopTry
            /\ stateStack' = SubSeq(stateStack, 1, i)
            /\ call'.op # "idle" \/ result'.kind = "return"

\* The catch clause gets the thrown value and the TryStatement forgets it.
HandsOver ==
    Delivers =>
        LET t == TopId(This)
            c == stateStack'[Len(stateStack')]
        IN  /\ stateStack' = Append(stateStack, c) /\ c = Len(frames) + 1
            /\ frames'[c].node = Top(This).node.handler
            /\ frames'[c].throwValue = Top(This).cv.value
            /\ frames'[t].cv = NoCv /\ frames'[t].doneHandler_

\* The body of the catch clause runs in a scope of its own, made by this
\* step, in which the parameter is the thrown value.
BindsParameter ==
    Binds =>
        LET b == stateStack'[Len(stateStack')]
            scope == frames'[b].scope
        IN  /\ stateStack' = Append(stateStack, b)
            /\ frames'[b].node = Top(This).node.body
            /\ scope = Len(scopes) + 1 /\ Len(scopes') = scope
            /\ scopes'[scope].parentScope = Top(This).scope
            /\ scopes'[scope].object = Len(heap) + 1
            /\ Get(heap'[scopes'[scope].object].properties, Top(This).node.param.name)
                 = Top(This).throwValue

\* After the catch clause the TryStatement is popped and nothing is thrown.
GoesOn ==
    Leaves =>
        /\ stateStack' = SubSeq(stateStack, 1, Len(stateStack) - 1)
        /\ call'.op # "idle" \/ result'.kind = "return"

\* The calls of setVal so far: their arguments in order.
SetVals ==
    LET is == {i \in DOMAIN host.calls : host.calls[i].fn = "setVal"}
        RECURSIVE seq(_)
        seq(n) == IF n = 0 THEN << >>
                  ELSE IF n \in is THEN Append(seq(n - 1), host.calls[n].args[1])
                  ELSE seq(n - 1)
    IN  seq(Len(host.calls))

CaughtStep == PopsToTry /\ HandsOver /\ BindsParameter /\ GoesOn

\* C22: a guest exception thrown at any depth inside the block of a try
\* statement with a catch clause (by a throw statement, by the engine or by
\* a native function) pops exactly the frames above the try frame, reaches
\* the catch clause with the thrown value bound to the parameter in a fresh
\* scope, and is cleared: no call ends with an error and the statement
\* after the try statement runs.
C22_CatchTakesThrow ==
    [][/\ CaughtStep
       /\ code \in CatchPrograms =>
            /\ result'.kind # "throw"
            /\ (phase = "ready" /\ RootDone') =>
                   /\ SetVals'[Len(SetVals')] = Num(2)
                   /\ Len(SetVals') >= 2]_vars

\* The program that calls the throwing function in a try block has run to
\* its end: the catch clause was given the TypeError and setVal(2) ran.
C22_Witness ==
    /\ Completed
    /\ DeclareThrower \in {code.body[i] : i \in DOMAIN code.body}
    /\ SetVals = <<Obj(Get(heap[GLOBAL].properties, "typeErr").v), Num(2)>>

\* The TryStatement on top of the stack is visited by this step.
VisitsTry ==
    /\ call.op # "idle" /\ ~paused_ /\ Len(stateStack) > 0
    /\ IsTry(Len(stateStack))

\* State s is on the stack after this step.
Stays(s) == \E i \in DOMAIN stateStack' : stateStack'[i] = s

\* A TryStatement leaves the stack only after its finalizer was started, and
\* the finalizer is started only once.
FinalizerOnce ==
    /\ VisitsTry =>
         LET t == TopId(This)
         IN  /\ (~Stays(t) /\ IsNode(Top(This).node.finalizer)) => Top(This).doneFinalizer_
             /\ (Len(stateStack') > Len(stateStack)
                   /\ frames'[stateStack'[Len(stateStack')]].node = Top(This).node.finalizer)
                  => ~Top(This).doneFinalizer_
    /\ \A s \in DOMAIN frames : frames[s].doneFinalizer_ => frames'[s].doneFinalizer_

\* Once its finalizer has been started, the next visit of a TryStatement
\* leaves the statement: it is popped and starts nothing more.
FinalizerLast ==
    (VisitsTry /\ Top(This).doneFinalizer_) => ~Stays(TopId(This))

\* The completion a TryStatement holds when it is left goes on as it is: to
\* the next TryStatement, or as the value of the call for a return, or to
\* the host for a throw that nothing takes.
CompletionGoesOn ==
    (VisitsTry /\ ~Stays(TopId(This)) /\ Top(This).cv # NoCv) =>
        LET cv == Top(This).cv
        IN  IF TopTry # 0
            THEN /\ Len(stateStack') = TopTry
                 /\ frames'[stateStack[TopTry]].cv = cv
            ELSE IF cv.type = RETURN
            THEN /\ frames'[stateStack'[Len(stateStack')]].node.type = "CallExpression"
                 /\ frames'[stateStack'[Len(stateStack')]].value = cv.value
            ELSE cv.type = THROW => (result'.kind = "throw" /\ ThrownValue' = cv.value)

\* C23: the finalizer of a try statement runs exactly once each time the
\* statement is left, however its block or catch clause completed; after
\* the finalizer the pending completion goes on with its value and label,
\* and an abrupt completion of the finalizer itself replaces it: the
\* statement is left and nothing more of it runs.
C23_FinalizerRunsOnceAndLast ==
    [][FinalizerOnce /\ FinalizerLast /\ CompletionGoesOn]_vars

\* The same without the case of a finalizer that completes abruptly.
C23_FinalizerRunsOnce == [][FinalizerOnce /\ CompletionGoesOn]_vars

\* A function whose try block throws and whose finalizer returns 5 was
\* called: the call gave 5.
C23_Witness ==
    /\ Completed /\ code \in FinallyPrograms
    /\ SetVals = <<Num(5)>>
    /\ \E s \in DOMAIN frames : frames[s].cv.type = RETURN /\ frames[s].doneFinalizer_

IsCall(i) == At_(i).node.type \in {"CallExpression", "NewExpression"}

\* The depth of the topmost Call/New frame on the stack, 0 if there is none.
TopCall ==
    LET ds == {i \in DOMAIN stateStack : IsCall(i)}
    IN  IF ds = {} THEN 0 ELSE CHOOSE i \in ds : \A j \in ds : j <= i

\* The ReturnStatement on top of the stack has its value and unwinds.
Unwinds(type) ==
    /\ call.op # "idle" /\ ~paused_ /\ Len(stateStack) > 0
    /\ Top(This).node.type = type
    /\ Top(This).done_ \/ ~IsNode(Top(This).node.argument)

\* A return pops the frames above the nearest call, or above a
\* TryStatement nearer than it, which keeps the return for after its
\* finalizer; the frames from there down stay, and the state of the call
\* has the value.
ReturnsToCall ==
    Unwinds("ReturnStatement") =>
        IF TopTry > TopCall
        THEN /\ stateStack' = SubSeq(stateStack, 1, TopTry)
             /\ frames'[stateStack[TopTry]].cv =
                    [type |-> RETURN, value |-> Top(This).value, label |-> ""]
        ELSE /\ TopCall > 0
             /\ stateStack' = SubSeq(stateStack, 1, TopCall)
             /\ frames'[stateStack[TopCall]].value = Top(This).value

\* The call that a return reached gives the value to the expression it is
\* part of, when it is visited next.
CallGivesValue ==
    (/\ call.op # "idle" /\ ~paused_ /\ Len(stateStack) > 1
     /\ Top(This).node.type = "CallExpression" /\ Top(This).doneExec_
     /\ ~Top(This).isConstructor) =>
        /\ stateStack' = SubSeq(stateStack, 1, Len(stateStack) - 1)
        /\ frames'[stateStack[Len(stateStack) - 1]].value = Top(This).value

\* A throw stops at the nearest TryStatement whatever calls are in between,
\* or at the root of the program.
ThrowPassesCalls ==
    Unwinds("ThrowStatement") =>
        IF TopTry > 0
        THEN /\ stateStack' = SubSeq(stateStack, 1, TopTry)
             /\ frames'[stateStack[TopTry]].cv =
                    [type |-> THROW, value |-> Top(This).value, label |-> ""]
        ELSE /\ stateStack' = <<stateStack[1]>>
             /\ result'.kind = "throw" /\ ThrownValue' = Top(This).value

\* C24: a return statement pops exactly the frames above the nearest
\* enclosing call (the finalizers of the try statements in between run
\* first) and makes the returned value the result of that call; the call
\* frame and what is below it stay; a throw is never stopped by a call.
C24_ReturnStopsAtCall ==
    [][ReturnsToCall /\ CallGivesValue /\ ThrowPassesCalls /\ CompletionGoesOn]_vars

\* g returned 5 inside f, f went on and returned 6.
C24_Witness ==
    /\ Completed /\ code \in ReturnPrograms
    /\ SetVals = <<Num(5), Num(6)>>

\* The completion that the statement on top of the stack, a break or a
\* continue, starts.
Jump ==
    [type |-> IF Top(This).node.type = "BreakStatement" THEN BREAK ELSE CONTINUE,
     value |-> Undef,
     label |-> IF IsNode(Top(This).node.label) THEN Top(This).node.label.name ELSE ""]

\* The state at depth i is what completion cv is meant for: the statement
\* that carries its label, or without a label a loop, or a switch for a
\* break.
IsTarget(cv, i) ==
    IF cv.label # ""
    THEN \E j \in DOMAIN At_(i).labels : At_(i).labels[j] = cv.label
    ELSE At_(i).isLoop \/ (cv.type = BREAK /\ At_(i).isSwitch)

\* The depth of the innermost target of cv on the stack, 0 if there is none.
Target(cv) ==
    LET ds == {i \in DOMAIN stateStack : IsTarget(cv, i)}
    IN  IF ds = {} THEN 0 ELSE CHOOSE i \in ds : \A j \in ds : j <= i

\* What completion cv, started by the state on top of the stack, does to
\* the stack: a TryStatement between the top and the target (or the target
\* itself) keeps it for after its finalizer; otherwise the frames above the
\* target are popped, and the target too for a break.  No error comes of it.
Jumps(cv) ==
    LET d == Target(cv)
        ts == {i \in d..(Len(stateStack) - 1) : i > 0 /\ IsTry(i)}
        t == CHOOSE i \in ts : \A j \in ts : j <= i
    IN  /\ d > 0
        /\ IF ts # {}
           THEN /\ stateStack' = SubSeq(stateStack, 1, t)
                /\ frames'[stateStack[t]].cv = cv
           ELSE stateStack' = SubSeq(stateStack, 1, IF cv.type = BREAK THEN d - 1 ELSE d)
        /\ call'.op # "idle" \/ result'.kind = "return"

\* A break or continue statement on top of the stack is visited.
VisitsJump ==
    /\ call.op # "idle" /\ ~paused_ /\ Len(stateStack) > 0
    /\ Top(This).node.type \in {"BreakStatement", "ContinueStatement"}

\* A TryStatement is left while it holds a break or a continue.
PassesJump ==
    /\ VisitsTry /\ ~Stays(TopId(This))
    /\ Top(This).cv.type \in {BREAK, CONTINUE}

\* The loop that a continue went back to goes on with its test, or with its
\* update for a for statement.
Resumes ==
    (/\ call.op # "idle" /\ ~paused_ /\ Len(stateStack) > 0
     /\ Top(This).isLoop /\ Len(stateStack') > Len(stateStack)) =>
        LET node == Top(This).node
            next == frames'[stateStack'[Len(stateStack')]].node
        IN  IF node.type = "ForStatement"
            THEN (Top(This).mode_ = 3 /\ IsNode(node.update)) => next = node.update
            ELSE Top(This).test_ = -1 => next = node.test

\* C25: an unlabeled break terminates exactly the innermost enclosing loop
\* or switch, a labeled break exactly the statement that carries the label,
\* and a continue goes back to the innermost (or the labeled) loop, which
\* stays on the stack and goes on with its test or update; the frames
\* between the statement and its target are popped and no other.
C25_JumpReachesTarget ==
    [][/\ VisitsJump => Jumps(Jump)
       /\ PassesJump => Jumps(Top(This).cv)
       /\ Resumes]_vars

\* The same for targets other than a labeled try statement.
C25_JumpReachesLoop ==
    [][/\ VisitsJump => Jumps(Jump)
       /\ (PassesJump /\ ~IsTarget(Top(This).cv, Len(stateStack))) => Jumps(Top(This).cv)
       /\ Resumes]_vars

\* The labeled continue in the inner loop went back to the test of the
\* outer loop, which then ended.
C25_Witness ==
    /\ Completed /\ code \in BreakPrograms
    /\ code.body[2].type = "LabeledStatement"
    /\ SetVals = <<Num(2), Num(3), Num(5)>>

----------------------------------------------------------------------------
(* The root of the state stack.                                             *)

\* The control-flow programs, run by a host that also appends code.
NextRoot ==
    \/ InitGlobal \/ InitArray \/ InitDate \/ InitRegExp \/ InitError
    \/ CreateErrorSubclass
    \/ InitFunc \/ InitObjects \/ PopulateScope \/ RunPolyfills \/ Queue
    \/ CallRun \/ StepDone \/ AppendCode
    \/ StepProgram \/ StepVariableDeclaration \/ StepExpressionStatement
    \/ StepLiteral \/ StepIdentifier \/ StepCallExpression \/ StepBinaryExpression
    \/ StepAssignmentExpression \/ StepMemberExpression
    \/ StepFunctionExpression \/ StepBlockStatement
    \/ StepReturnStatement \/ StepThrowStatement \/ StepTryStatement
    \/ StepCatchClause
    \/ StepBreakStatement \/ StepContinueStatement \/ StepLabeledStatement
    \/ StepIfStatement \/ StepWhileStatement \/ StepDoWhileStatement
    \/ StepForStatement \/ StepSwitchStatement \/ StepNewExpression
    \/ StepUnaryExpression

SpecRoot == Starts(ControlPrograms) /\ [][NextRoot]_vars

\* The State the constructor made for the user's program.
Root == stateStack[1]

\* The root is the Program state at the bottom of the stack: this step
\* leaves it there, and changes nothing of it but the statements still to
\* run, the done mark and the value.
RootStays ==
    phase = "ready" =>
        /\ Len(stateStack') > 0 /\ stateStack'[1] = Root
        /\ frames'[Root].node.type = "Program"
        /\ frames'[Root] = [frames[Root] EXCEPT !.node.body = frames'[Root].node.body,
                                                !.done = frames'[Root].done,
                                                !.value = frames'[Root].value]

\* A call that ends with an uncaught exception of the guest, or with the
\* program at its end, leaves the root alone on the stack, marked done.
EndMarksDone ==
    (phase = "ready" /\ call.op # "idle" /\ call'.op = "idle") =>
        /\ \/ result'.kind = "throw" /\ ThrownValue' # NoThrow
           \/ result'.kind = "return" /\ ~result'.ret
           => stateStack' = <<Root>> /\ frames'[Root].done
        /\ result'.kind = "return" => frames'[Root].done

\* C27: after construction the state stack is never empty; its first state
\* is the State of the root Program, which no handler, no unwind and no
\* appendCode pops or replaces; the end of the program and an uncaught
\* exception only mark it done.
C27_RootStays ==
    [][RootStays /\ EndMarksDone]_vars

\* Code was appended, and a break that found no target has unwound the
\* stack to the root, which is marked done.
C27_Witness ==
    /\ phase = "ready" /\ call.op = "idle" /\ code \in BreakPrograms
    /\ result.kind = "throw" /\ host.ops > 0
    /\ stateStack = <<Root>> /\ frames[Root].done

----------------------------------------------------------------------------
(* Accessor properties.                                                    *)

IsSynthetic(st) == st.node.type = "CallExpression" /\ st.node.end = 0

\* The getter ("get") or the setter ("set") that a read or a write of
\* obj[name] finds on obj or its prototype chain; Undef when there is none.
AccessorOf(obj, name, kind) ==
    IF obj.t # "object" THEN Undef
    ELSE LET at == Owner(This, obj, name)
         IN  IF at = 0 THEN Undef
             ELSE IF kind = "get" /\ name \in DOMAIN heap[at].getter
             THEN heap[at].getter[name]
             ELSE IF kind = "set" /\ name \in DOMAIN heap[at].setter
             THEN heap[at].setter[name]
             ELSE Undef

\* A handler is about to visit a state of this type.
Visits(type) ==
    /\ call.op # "idle" /\ ~paused_ /\ Len(stateStack) > 0
    /\ Top(This).node.type = type

\* The step pushes a synthetic call frame of func, with this and arguments,
\* on the states in below.
PushesCall(below, func, this, arguments) ==
    LET c == Len(frames) + 1
    IN  /\ stateStack' = Append(below, c) /\ Len(frames') = c
        /\ IsSynthetic(frames'[c])
        /\ frames'[c].func_ = func /\ frames'[c].funcThis_ = this
        /\ frames'[c].arguments_ = arguments
        /\ frames'[c].doneArgs_ /\ ~frames'[c].doneExec_

\* The stack without its top state.
Beneath == SubSeq(stateStack, 1, Len(stateStack) - 1)

\* A member expression that is read, at the visit that has its object.
Reads ==
    /\ Visits("MemberExpression") /\ ~Top(This).components
    /\ Top(This).doneObject_ /\ ~Top(This).node.computed

\* Reading an accessor property runs the getter with the receiver as this.
GetterRuns ==
    LET receiver == Top(This).value
        getter == AccessorOf(receiver, Top(This).node.property.name, "get")
    IN  Reads /\ getter # Undef => PushesCall(Beneath, getter, receiver, << >>)

\* A synthetic call frame whose function has returned is on top.
Yields == Visits("CallExpression") /\ IsSynthetic(Top(This)) /\ Top(This).doneExec_

\* What the function of a synthetic frame returned goes to the state below:
\* for a getter, to the state that reads the property.
YieldsReturnValue ==
    Yields =>
        /\ stateStack' = Beneath
        /\ frames'[stateStack'[Len(stateStack')]].value = Top(This).value

\* An assignment to a property of an object, at the visit that has the
\* right-hand side.
Assigns ==
    /\ Visits("AssignmentExpression")
    /\ Top(This).doneRight_ /\ ~Top(This).doneSetter_
    /\ IsRef(Top(This).leftReference_)
    /\ Top(This).leftReference_.base # SCOPE_REFERENCE

Assigned ==
    IF Top(This).node.operator = "=" THEN Top(This).value
    ELSE BinaryOp(This, "+", Top(This).leftValue_, Top(This).value)

\* Assigning to a property with a setter runs the setter with the receiver
\* as this and the new value as its argument,
SetterRuns ==
    LET ref == Top(This).leftReference_
        setter == AccessorOf(ref.base, ref.name, "set")
    IN  Assigns /\ setter # Undef =>
            /\ PushesCall(stateStack, setter, ref.base, <<Assigned>>)
            /\ frames'[TopId(This)].doneSetter_
            /\ frames'[TopId(This)].setterValue_ = Assigned

\* and after the setter the assignment yields the assigned value.
YieldsAssigned ==
    Visits("AssignmentExpression") /\ Top(This).doneSetter_ =>
        /\ stateStack' = Beneath
        /\ frames'[stateStack'[Len(stateStack')]].value = Top(This).setterValue_

\* A compound assignment to a property with a getter, at a visit that has
\* the left-hand side and not yet the right-hand side.
Compounds ==
    /\ Visits("AssignmentExpression") /\ Top(This).node.operator # "="
    /\ Top(This).doneLeft_ /\ ~Top(This).doneRight_
    /\ LET ref == IF IsRef(Top(This).leftReference_) THEN Top(This).leftReference_
                  ELSE Top(This).value
       IN  /\ IsRef(ref) /\ ref.base # SCOPE_REFERENCE
           /\ AccessorOf(ref.base, ref.name, "get") # Undef

\* The getter runs first; the right-hand side is evaluated when the getter
\* has returned, and what it returned is the left value.
GetterBeforeRight ==
    LET a == TopId(This)
        ref == IF IsRef(Top(This).leftReference_) THEN Top(This).leftReference_
               ELSE Top(This).value
        c == Len(frames) + 1
    IN  Compounds =>
            IF ~Top(This).doneGetter_
            THEN /\ PushesCall(stateStack, AccessorOf(ref.base, ref.name, "get"),
                               ref.base, << >>)
                 /\ ~frames'[a].doneRight_ /\ frames'[a].doneGetter_
            ELSE /\ stateStack' = Append(stateStack, c) /\ Len(frames') = c
                 /\ frames'[c].node = Top(This).node.right
                 /\ frames'[a].doneRight_
                 /\ frames'[a].leftValue_ = Top(This).value

\* What the programs of AccessorPrograms have passed to setVal at their end.
AccessorOutcome ==
    Completed =>
        /\ code = ReadsKid => SetVals = <<Num(2), Num(5)>>
        /\ code = AssignsBox => SetVals = <<Num(5), Num(5)>>
        /\ code = AddsToKid => SetVals = <<Num(2), Num(5), Num(5)>>
        /\ code = AddsAssigned => SetVals = <<Num(2), Num(7), Num(9)>>

AccessorStep ==
    /\ GetterRuns /\ YieldsReturnValue /\ SetterRuns /\ YieldsAssigned
    /\ GetterBeforeRight /\ AccessorOutcome'

\* C28: reading a property that is an accessor on the receiver or on its
\* prototype chain runs the getter as a synthetic call frame with the
\* receiver as this, and the read yields what the getter returned;
\* assigning to a property with an own or inherited setter runs the setter
\* as a synthetic call frame with the new value, and the assignment yields
\* the assigned value, not what the setter returned; in a compound
\* assignment the getter frame completes before the right-hand side is
\* evaluated and the setter frame runs after it.
C28_AccessorsRunAsCalls ==
    [][AccessorStep]_vars

\* A compound assignment to an inherited accessor has run its getter, its
\* right-hand side and its setter, and has yielded the assigned value.
C28_Witness ==
    /\ Completed /\ code = AddsToKid
    /\ SetVals = <<Num(2), Num(5), Num(5)>>
    /\ \E a \in DOMAIN frames :
         /\ frames[a].node.type = "AssignmentExpression"
         /\ frames[a].doneGetter_ /\ frames[a].doneRight_ /\ frames[a].doneSetter_
         /\ \E g, t \in DOMAIN frames :
              /\ a < g /\ g < t
              /\ IsSynthetic(frames[g]) /\ IsSynthetic(frames[t])
              /\ frames[g].funcThis_ = frames[t].funcThis_
              /\ frames[g].funcThis_ = frames[a].leftReference_.base
              /\ frames[g].arguments_ = << >> /\ frames[t].arguments_ = <<Num(5)>>

\* An identifier that is read and that no scope but the global one binds.
ReadsGlobal ==
    /\ Visits("Identifier") /\ ~Top(This).components
    /\ Binding(This, Top(This).scope, Top(This).node.name) = GLOBAL_SCOPE

\* Reading an identifier that is an accessor property of the global object
\* runs the getter with the global object as this.
GlobalGetterRuns ==
    LET getter == AccessorOf(Obj(GLOBAL), Top(This).node.name, "get")
    IN  ReadsGlobal /\ getter # Undef =>
            /\ PushesCall(Beneath, getter, Obj(GLOBAL), << >>)
            /\ ~getterStep_'

\* C29: evaluating a bare identifier that resolves to an accessor property
\* of the global object invokes the getter as a synthetic call with the
\* global object as this and yields the getter's result as the value of
\* the identifier, leaving the getter flag cleared.
C29_GlobalGetterRuns ==
    [][GlobalGetterRuns /\ YieldsReturnValue /\ (Completed' => ~getterStep_')]_vars

\* The identifier `now`, an accessor of the global object, has been read.
C29_Witness ==
    /\ code = ReadsNow /\ phase = "ready" /\ call.op = "idle"
    /\ result.kind = "throw"
    /\ \E s \in DOMAIN frames :
         /\ frames[s].node.type = "Identifier" /\ frames[s].node.name = "now"
         /\ \A i \in DOMAIN stateStack : stateStack[i] # s

----------------------------------------------------------------------------
(* `new` on what is not a constructor.                                     *)

\* The function of the call on top of the stack, once its callee has been
\* evaluated.
CalledFunc ==
    IF Top(This).doneCallee_ # 1 THEN Top(This).func_
    ELSE IF IsRef(Top(This).value) THEN getValue(This, Top(This).value).v
    ELSE Top(This).value

\* func cannot be used with `new`: it is no object, or a function made
\* with isConstructor false, or an object that cannot be called.
NotConstructor(func) ==
    \/ ~IsObj(func)
    \/ heap[func.v].illegalConstructor
    \/ /\ ~IsNode(heap[func.v].node)
       /\ heap[func.v].nativeFunc = "" /\ heap[func.v].asyncFunc = ""

\* A `new` expression with all its arguments, about to construct.
Constructs ==
    /\ Visits("NewExpression") /\ Top(This).doneCallee_ # 0 /\ ~Top(This).doneArgs_
    /\ Top(This).n_ = Len(Top(This).node.arguments)

\* `new` on what is no constructor throws a TypeError of the guest into the
\* enclosing try statement, and the call goes on.
NewThrowsTypeError ==
    Constructs /\ NotConstructor(CalledFunc) =>
        /\ ~(call'.op = "idle" /\ result'.kind = "throw" /\ ThrownValue' = NoThrow)
        /\ TopTry # 0 =>
               /\ ThrowsInto(TopTry)
               /\ call'.op # "idle" \/ result'.kind = "return"
               /\ isa(This', frames'[stateStack[TopTry]].cv.value, TYPE_ERROR)

\* C30: applying `new` to any value that is not a constructor, whether a
\* native function created with is_constructor = false or a value that is
\* no function such as undefined, null or a number, raises a TypeError of
\* the guest that an enclosing try/catch of the guest can catch; it never
\* surfaces as an error of the host.
C30_NewThrowsTypeError ==
    [][NewThrowsTypeError]_vars

\* The part of C30 that holds: `new` on an object that is no constructor
\* throws a TypeError that the guest can catch.
C30_NewOnObjectThrows ==
    [][Constructs => (IsObj(CalledFunc) => NewThrowsTypeError)]_vars

\* `new setVal()` has thrown a TypeError that the guest has caught.
C30_Witness ==
    /\ Completed /\ code = NewOf(Id("setVal"))
    /\ Len(SetVals) = 2 /\ isa(This, SetVals[1], TYPE_ERROR) /\ SetVals[2] = Num(2)

----------------------------------------------------------------------------
(* The dispatcher after a guest exception.                                 *)

\* A handler has thrown a guest exception into the TryStatement at depth i:
\* the stack is what unwind has left, the states up to that TryStatement.
NoPushAfterThrow ==
    \A i \in DOMAIN stateStack :
        ThrowsInto(i) => stateStack' = SubSeq(stateStack, 1, i)

\* The part of C22 that holds: the catch clause takes every throw of a
\* handler whose call of step() has returned no child frame before.
C22_CatchTakesFirstThrow ==
    [][call.nextState = 0 => CaughtStep]_vars

\* C26: when a handler raises a guest exception (throwException, which ends
\* in the STEP_ERROR sentinel), the dispatcher pushes no frame in that
\* iteration: after the iteration the state stack is exactly the stack left
\* by unwind, also when an earlier iteration of the same call of step() had
\* returned a child frame; step() does not execute the throwing frame again,
\* and it terminates.
C26_NoPushAfterThrow ==
    [][NoPushAfterThrow /\ call'.rounds < MaxRounds]_vars

\* The part of C26 that holds: a guest exception thrown by a handler whose
\* call of step() has returned no child frame before leaves the stack as
\* unwind left it.
C26_NoPushAfterFirstThrow ==
    [][call.nextState = 0 => NoPushAfterThrow]_vars

\* A polyfill has thrown into a try statement of the guest after an earlier
\* iteration of the same call of step() had returned a child frame.
C26_Witness ==
    /\ code = DeletesArray /\ call.op # "idle" /\ call.inStep /\ call.nextState # 0
    /\ IsTry(Len(stateStack) - 1) /\ At_(Len(stateStack) - 1).cv.type = THROW
    /\ Top(This).node.type = "Identifier" /\ Top(This).node.end = 0

----------------------------------------------------------------------------
(* Assignment to a non-extensible array.                                   *)

\* a[name] = val in a scope that is strict or sloppy: what setProperty
\* returns or throws.
AssignIn(strict, a, name, val) ==
    setProperty([This EXCEPT !.scopes[Top(This).scope].strict = strict],
                Obj(a), name, val, NoDescriptor)

\* The statements between which the arrays are looked at.
BetweenStatements == phase = "ready" /\ call.op = "idle" /\ Len(stateStack) > 0

\* The non-extensible arrays with a key they lack.
AbsentKeys ==
    {an \in Arrays \X ArrayNames :
        heap[an[1]].preventExtensions /\ ~In(heap[an[1]].properties, an[2])}

\* C31: setProperty of an absent key on a non-extensible object leaves the
\* whole object unchanged, the length of an array included when the key is
\* an index beyond its length; in sloppy mode it returns silently, in strict
\* mode it throws a guest TypeError.
C31_NonExtensibleUnchanged ==
    BetweenStatements =>
        \A an \in AbsentKeys, val \in ArrayValues, strict \in BOOLEAN :
            LET r == AssignIn(strict, an[1], an[2], val)
            IN  /\ r.m.heap[an[1]] = heap[an[1]]
                /\ IF strict
                   THEN r.exc = "throwException" /\ r.err.name = TYPE_ERROR
                   ELSE r.exc = "none"

\* The part of C31 that holds: the assignment adds no key and changes no
\* property other than length, silently or with the TypeError.
C31_NonExtensibleGainsNoKey ==
    BetweenStatements =>
        \A an \in AbsentKeys, val \in ArrayValues, strict \in BOOLEAN :
            LET r == AssignIn(strict, an[1], an[2], val)
                was == heap[an[1]].properties
                is == r.m.heap[an[1]].properties
            IN  /\ Keys(is) = Keys(was)
                /\ \A k \in Keys(was) \ {"length"} : At(is, k) = At(was, k)
                /\ IF strict
                   THEN r.exc = "throwException" /\ r.err.name = TYPE_ERROR
                   ELSE r.exc = "none"

\* A non-extensible array lacks an index beyond its length.
C31_Witness ==
    /\ BetweenStatements
    /\ \E an \in AbsentKeys :
          /\ legalArrayIndex(an[2]) # NotAnIndex
          /\ Get(heap[an[1]].properties, "length") = Num(1)

----------------------------------------------------------------------------
(* Assignment to the length of an array.                                   *)

\* What is assigned to length: the values of the statements and 1.5.
LengthValues == ArrayValues \cup {Frac}

\* The keys of bag that are array indices of at least n.
IndicesFrom(bag, n) ==
    {k \in Keys(bag) : legalArrayIndex(k) # NotAnIndex /\ legalArrayIndex(k) >= n}

\* a.length = val has thrown RangeError and left the array as it was.
RejectsLength(a, r) ==
    /\ r.exc = "throwException" /\ r.err.name = RANGE_ERROR
    /\ r.m.heap[a] = heap[a]

\* a.length = n has removed the keys gone, kept the others as they were and
\* set length to n.
TruncatesTo(a, r, n, gone) ==
    LET was == heap[a].properties
        is == r.m.heap[a].properties
    IN  /\ r.exc = "none"
        /\ Keys(is) = Keys(was) \ gone
        /\ \A k \in Keys(is) \ {"length"} : At(is, k) = At(was, k)
        /\ Get(is, "length") = Num(n)

\* C32: assigning to the length of an array a value that is not an integer
\* from 0 to 2^32 - 1 throws a guest RangeError and leaves the array
\* unchanged; assigning a legal value smaller than the length removes every
\* integer key that is not below the new length, keeps every key below it,
\* and sets length to the new value.
C32_LengthAssignment ==
    BetweenStatements =>
        \A a \in Arrays, val \in LengthValues :
            LET r == AssignIn(FALSE, a, "length", val)
                n == legalArrayLength(val)
                length == Get(heap[a].properties, "length")
            IN  IF n = NotAnIndex THEN RejectsLength(a, r)
                ELSE (length.t = "number" /\ n < length.v) =>
                        TruncatesTo(a, r, n, IndicesFrom(heap[a].properties, n))

\* The part of C32 that holds: the RangeError, and the truncation of the
\* enumerable integer keys when the host can delete each of them.
C32_LengthAssignmentEnumerable ==
    BetweenStatements =>
        \A a \in Arrays, val \in LengthValues :
            LET r == AssignIn(FALSE, a, "length", val)
                n == legalArrayLength(val)
                length == Get(heap[a].properties, "length")
                gone == {k \in IndicesFrom(heap[a].properties, n) :
                            At(heap[a].properties, k).e}
            IN  IF n = NotAnIndex THEN RejectsLength(a, r)
                ELSE (/\ length.t = "number" /\ n < length.v
                      /\ \A k \in gone : At(heap[a].properties, k).c) =>
                        TruncatesTo(a, r, n, gone)

\* An array has an integer key that no for-in over its properties visits.
C32_Witness ==
    /\ BetweenStatements
    /\ \E a \in Arrays :
          /\ Get(heap[a].properties, "length") = Num(2)
          /\ In(heap[a].properties, "1") /\ ~At(heap[a].properties, "1").e

----------------------------------------------------------------------------
(* Guest programs that delete, declare, switch and enumerate.              *)

\* delete box.v; box.v = 5; setVal(2);
DeletesAccessor ==
    Program(<<ExprStmt(Unary("delete", BoxV)),
              ExprStmt(Assign("=", BoxV, Lit(Num(5)))),
              SetValStmt(2)>>)

DeletePrograms == {DeletesAccessor}

\* try { require("fail")(); } catch (e) { setVal(3); } finally { setVal(4); }
\* setVal(2);
FailsInTry ==
    Program(<<Try(Block(<<ExprStmt(Call(Call(Id("require"), <<Lit(Str("fail"))>>), << >>))>>),
                  Catch("e", Block(<<SetValStmt(3)>>)), Block(<<SetValStmt(4)>>)),
              SetValStmt(2)>>)
\* try { throw 1; } catch (e) { setVal(e); }
CatchesOne == Program(<<Try(Block(<<Throw(Lit(Num(1)))>>), CatchE, NoNode)>>)

NativePrograms == {FailsInTry, CatchesOne}

TypeOfId(name) == Unary("typeof", Id(name))
\* function h() { var deep; }
DeclareH == FuncDecl("h", << >>, Block(<<VarDecl("deep", NoNode)>>))
\* function g() { setVal(typeof h); var inner = 2; function h() { var deep; } }
DeclareG ==
    FuncDecl("g", << >>,
        Block(<<CallStmt("setVal", <<TypeOfId("h")>>), VarDecl("inner", Two), DeclareH>>))
\* setVal(typeof g); if (true) { var x = 1; } function g() { ... }  g();
HoistsNames ==
    Program(<<CallStmt("setVal", <<TypeOfId("g")>>),
              If(True, Block(<<VarDecl("x", Lit(Num(1)))>>), NoNode),
              DeclareG,
              ExprStmt(Call(Id("g"), << >>))>>)
\* function f() {} var f; setVal(typeof f);
FunctionThenVar ==
    Program(<<FuncDecl("f", << >>, Block(<< >>)), VarDecl("f", NoNode),
              CallStmt("setVal", <<TypeOfId("f")>>)>>)
\* var box; setVal(typeof box);
RedeclaresBox ==
    Program(<<VarDecl("box", NoNode), CallStmt("setVal", <<TypeOfId("box")>>)>>)
\* var y = 5;
DeclaresY == Program(<<VarDecl("y", Lit(Num(5)))>>)

HoistPrograms == {HoistsNames, FunctionThenVar, RedeclaresBox, DeclaresY}

\* What the host appends: var y; setVal(y);
Redeclarations == {Program(<<VarDecl("y", NoNode), CallStmt("setVal", <<Id("y")>>)>>)}

\* The host calls appendCode with code that declares y again.
AppendRedeclaration ==
    /\ phase = "ready" /\ call.op = "idle"
    /\ host.ops < MaxHostOps
    /\ \E new \in Redeclarations :
         LET r == Thrown(appendCode([This EXCEPT !.host.ops = @ + 1], new))
         IN  /\ Commit(r.m)
             /\ result' = [op |-> "appendCode",
                           kind |-> IF r.exc = "none" THEN "return" ELSE "throw",
                           ret |-> FALSE, err |-> r.err, rounds |-> 0]
    /\ UNCHANGED <<phase, code, ast, polyfills_, call>>

\* setVal(h); switch (discriminant) { cases }  setVal(2);
Switches(h, discriminant, cases) ==
    Program(<<SetValStmt(h), SwitchOn(discriminant, cases), SetValStmt(2)>>)
GetVal == Call(Id("getVal"), << >>)
One == Lit(Num(1))

SwitchPrograms ==
    { \* switch (getVal()) { case 0: setVal(10); case getVal(): setVal(11);
      \*   case 1: setVal(12); break; default: setVal(13); case 2: setVal(14); }
      Switches(1, GetVal,
          <<Case(Lit(Num(0)), <<SetValStmt(10)>>), Case(GetVal, <<SetValStmt(11)>>),
            Case(One, <<SetValStmt(12), Break("")>>), Case(NoNode, <<SetValStmt(13)>>),
            Case(Two, <<SetValStmt(14)>>)>>),
      \* switch (3) { case getVal(): setVal(11); default: setVal(13);
      \*   case getVal(): setVal(14); break; case 3: setVal(15); }
      Switches(4, Three,
          <<Case(GetVal, <<SetValStmt(11)>>), Case(NoNode, <<SetValStmt(13)>>),
            Case(GetVal, <<SetValStmt(14), Break("")>>),
            Case(Lit(Num(4)), <<SetValStmt(15)>>)>>),
      \* switch (getVal()) { default: setVal(13); case 1: case getVal(): setVal(14); }
      Switches(5, GetVal,
          <<Case(NoNode, <<SetValStmt(13)>>), Case(One, << >>),
            Case(GetVal, <<SetValStmt(14)>>)>>),
      \* switch (5) { case getVal(): setVal(11); }
      Switches(1, Lit(Num(5)), <<Case(GetVal, <<SetValStmt(11)>>)>>),
      \* switch ("1") { case getVal(): setVal(11); break; case "1": setVal(12); }
      Switches(1, Lit(Str("1")),
          <<Case(GetVal, <<SetValStmt(11), Break("")>>),
            Case(Lit(Str("1")), <<SetValStmt(12)>>)>>) }

StatementPrograms ==
    DeletePrograms \cup NativePrograms \cup HoistPrograms \cup SwitchPrograms

NextStatements ==
    \/ InitGlobal \/ InitArray \/ InitDate \/ InitRegExp \/ InitError
    \/ CreateErrorSubclass
    \/ InitFunc \/ InitObjects \/ PopulateScope \/ RunPolyfills \/ Queue
    \/ CallStep \/ CallRun \/ StepDone
    \/ StepProgram \/ StepExpressionStatement
    \/ StepLiteral \/ StepIdentifier \/ StepCallExpression
    \/ StepAssignmentExpression \/ StepMemberExpression
    \/ StepFunctionExpression \/ StepUnaryExpression
    \/ StepTryStatement \/ StepBlockStatement \/ StepCatchClause \/ StepThrowStatement
    \/ StepVariableDeclaration \/ StepFunctionDeclaration \/ StepIfStatement
    \/ AppendRedeclaration
    \/ StepSwitchStatement \/ StepBreakStatement

SpecStatements == Starts(StatementPrograms) /\ [][NextStatements]_vars

\* The keys of object id that have a getter or a setter.
AccessorKeys(id) == DOMAIN heap[id].getter \cup DOMAIN heap[id].setter

\* C33: every key of an object's getter or setter map is a key of its
\* properties: after `delete o.k` of an accessor property o has no getter
\* and no setter for k, so that a later assignment o.k = v creates a data
\* property and does not call the deleted setter.
C33_AccessorKeysAreProperties ==
    /\ \A id \in DOMAIN heap : AccessorKeys(id) \subseteq Keys(heap[id].properties)
    /\ (Completed /\ code = DeletesAccessor) =>
          /\ SetVals = <<Num(2)>>
          /\ Get(heap[Get(heap[GLOBAL].properties, "box").v].properties, "v") = Num(5)

\* The delete of the accessor property has returned true and the program
\* has run to its end.
C33_Witness ==
    /\ Completed /\ code = DeletesAccessor
    /\ ~In(heap[Get(heap[GLOBAL].properties, "box").v].properties, "v")

----------------------------------------------------------------------------
(* The statements left behind by an uncaught guest exception.              *)

\* try { throw 1; } catch (e) { throw 4; } finally { setVal(3); }  setVal(2);
ThrowsFour ==
    Program(<<Try(Block(<<Throw(Lit(Num(1)))>>),
                  Catch("e", Block(<<Throw(Lit(Num(4)))>>)), SetVal3),
              CallStmt("setVal", <<Two>>)>>)

\* The statements queued in the root Program state.
Queued == frames[Root].node.body

\* A call of step() or run() ends by throwing a guest value to the host.
UncaughtEnd ==
    /\ phase = "ready" /\ call.op # "idle" /\ call'.op = "idle"
    /\ result'.kind = "throw" /\ ThrownValue' # NoThrow

\* The root stays alone on the stack, done, with its queue as it was when
\* the throwing handler began.
LeavesQueue ==
    UncaughtEnd => stateStack' = <<Root>> /\ frames'[Root].done /\ Queued' = Queued

\* While the root is done nothing is executed.
DoneRunsNothing ==
    (phase = "ready" /\ Len(stateStack) > 0 /\ frames[Root].done /\ frames'[Root].done) =>
        /\ stateStack' = stateStack /\ frames' = frames /\ heap' = heap
        /\ host'.calls = host.calls

\* appendCode puts the new statements behind the queued ones, and
\* stepProgram takes the first of the queue.
QueueInOrder ==
    /\ (Appends /\ result'.kind = "return") =>
          /\ \E new \in Appended :
                new.type = "Program" /\ Queued' = Queued \o new.body
          /\ ~frames'[Root].done
    /\ (phase = "ready" /\ Len(stateStack) > 0 /\ Queued' # Queued /\ ~Appends) =>
          /\ stateStack = <<Root>> /\ Len(stateStack') = 2
          /\ frames'[stateStack'[2]].node = Head(Queued)
          /\ Queued' = Tail(Queued)

\* C34: after an uncaught guest exception the root state stays on the stack
\* marked done, with the statements that followed the throwing statement
\* still queued; no later step() or run() executes them, and after an
\* appendCode they are executed before the appended statements.
C34_LeftoverRunsBeforeAppended ==
    /\ [][LeavesQueue /\ DoneRunsNothing /\ QueueInOrder]_vars
    /\ [](Completed /\ code = ThrowsFour /\ Len(SetVals) = 3 =>
              SetVals = <<Num(3), Num(2), Num(9)>>)

\* The program has thrown 4 to the host with setVal(2) still queued, code
\* was appended, and a run has executed setVal(2) and then the appended
\* setVal(9).
C34_Witness ==
    /\ Completed /\ code = ThrowsFour
    /\ SetVals = <<Num(3), Num(2), Num(9)>>

----------------------------------------------------------------------------
(* A native function of the host that throws.                              *)

\* The calls of the native `fail` that the host has seen.
Failures == {i \in DOMAIN host.calls : host.calls[i].fn = "fail"}

\* The handler of the call of `fail` lets the native's Error out of step().
NativeThrows ==
    /\ phase = "ready" /\ call.op # "idle" /\ Len(stateStack) > 0
    /\ Top(This).node.type = "CallExpression"
    /\ Len(host'.calls) = Len(host.calls) + 1
    /\ host'.calls[Len(host'.calls)].fn = "fail"

\* step() ends with the Error of the native; every state stays on the stack
\* as it was, but for the state of the call, which is marked as executed.
LeavesCallExecuted ==
    NativeThrows =>
        /\ call'.op = "idle" /\ result'.kind = "throw"
        /\ result'.err = HostErr("Error", Str("host failure"))
        /\ stateStack' = stateStack
        /\ Len(frames') = Len(frames)
        /\ \A s \in DOMAIN frames : s # TopId(This) => frames'[s] = frames[s]
        /\ ~Top(This).doneExec_ /\ frames'[TopId(This)].doneExec_
        /\ heap' = heap /\ scopes' = scopes

\* C35: a host exception thrown by a native function, other than the
\* STEP_ERROR sentinel, leaves step() and run() unchanged: no catch or
\* finally block of the guest runs for it and no state is unwound; the state
\* of the interrupted call stays on the stack marked as executed, so that a
\* later run() goes on after the call and does not invoke the native again
\* (the program's own statements, when the host has appended none).
C35_HostExceptionPropagates ==
    /\ [][LeavesCallExecuted]_vars
    /\ [](Cardinality(Failures) <= 1)
    /\ [](code = FailsInTry =>
            /\ \A i \in DOMAIN SetVals : SetVals[i] # Num(3)
            /\ (Completed /\ host.ops = 0) => SetVals = <<Num(4), Num(2)>>)

\* The native has thrown to the host, and a later run() has completed the
\* program from the statement after the call on.
C35_Witness ==
    /\ Completed /\ code = FailsInTry /\ host.ops = 0
    /\ Cardinality(Failures) = 1 /\ SetVals = <<Num(4), Num(2)>>

----------------------------------------------------------------------------
(* Resume callbacks that the host invokes late or again.                   *)

\* setVal(wait(2)); setVal(wait(3));
WaitsTwice ==
    Program(<<CallStmt("setVal", <<Call(Id("wait"), <<Two>>)>>),
              CallStmt("setVal", <<Call(Id("wait"), <<Lit(Num(3))>>)>>)>>)

NextAsync ==
    \/ InitGlobal \/ InitArray \/ InitDate \/ InitRegExp \/ InitError
    \/ CreateErrorSubclass
    \/ InitFunc \/ InitObjects \/ PopulateScope \/ RunPolyfills \/ Queue
    \/ CallStep \/ CallRun \/ InvokeCallback
    \/ StepDone \/ StepPaused \/ RunPaused
    \/ StepProgram \/ StepExpressionStatement \/ StepLiteral \/ StepIdentifier
    \/ StepCallExpression \/ StepFunctionExpression
    \/ StepAssignmentExpression \/ StepMemberExpression

SpecAsync == Starts({WaitsTwice}) /\ [][NextAsync]_vars

\* The host invokes a callback: the State it closes over.
Invoked == host'.resumed[Len(host'.resumed)].state
Invokes == Len(host'.resumed) > Len(host.resumed)

\* State s is on the stack.
Live(s) == \E i \in DOMAIN stateStack : stateStack[i] = s

\* paused_ is cleared by the callback of the suspended call, which is the
\* call on top of the stack, and by nothing else.
ClearedByOwnCallback ==
    (paused_ /\ ~paused_') => (Invokes /\ Invoked = TopId(This))

\* The callback of a call that is no longer on the stack changes neither
\* paused_ nor any State on the stack.
StaleCallbackInert ==
    (Invokes /\ ~Live(Invoked)) =>
        /\ paused_' = paused_
        /\ \A i \in DOMAIN stateStack : frames'[stateStack[i]] = frames[stateStack[i]]

\* C36: the host may invoke every resume callback it was given at any time
\* and any number of times; paused_ is cleared only by the callback of the
\* call that is suspended, and the callback of a call that has completed or
\* was unwound changes neither paused_ nor the result of a live state.
C36_OnlyOwnCallbackResumes ==
    [][ClearedByOwnCallback /\ StaleCallbackInert]_vars

\* The part of C36 that holds: a callback writes the value slot of the State
\* it closes over and of no other, and nothing but a callback clears paused_.
C36_CallbackWritesOwnSlot ==
    [][/\ (paused_ /\ ~paused_') => Invokes
       /\ Invokes =>
            /\ stateStack' = stateStack
            /\ \A s \in DOMAIN frames : s # Invoked => frames'[s] = frames[s]
            /\ frames'[Invoked] =
                  [frames[Invoked] EXCEPT
                      !.value = host'.resumed[Len(host'.resumed)].value]]_vars

\* The second call of wait is suspended and the callback of the first,
\* which has completed, has been invoked twice.
C36_Witness ==
    /\ Len(host.cbs) = 2 /\ Len(host.resumed) = 2
    /\ host.resumed[1].state = host.cbs[1] /\ host.resumed[2].state = host.cbs[1]
    /\ TopId(This) = host.cbs[2] /\ ~paused_

----------------------------------------------------------------------------
(* Hoisting: what a scope binds when its body begins.                      *)

\* The var statements and function declarations of a body that are not
\* inside a function nested in it.
RECURSIVE Declarations(_)
Declarations(node) ==
    IF node.type \in {"VariableDeclaration", "FunctionDeclaration"} THEN {node}
    ELSE IF node.type \in {"FunctionExpression", "ExpressionStatement"} THEN {}
    ELSE UNION {Declarations(Children(node)[i]) : i \in DOMAIN Children(node)}

NameOf(declaration) ==
    IF declaration.type = "FunctionDeclaration" THEN declaration.id
    ELSE declaration.declarations[1].id.name

VarNames(body) ==
    {NameOf(d) : d \in {d \in Declarations(body) : d.type = "VariableDeclaration"}}
FunctionDeclarations(body) ==
    {d \in Declarations(body) : d.type = "FunctionDeclaration"}

\* The names declared in the bodies of the functions declared in body.
NestedNames(body) ==
    UNION {{NameOf(d) : d \in Declarations(f.body)} : f \in FunctionDeclarations(body)}

\* Scope binds the declarations of body: the declared functions, the names
\* of the var statements that no function declaration has as undefined, and
\* none of the names declared in the nested functions only.
Hoisted(scope, body) ==
    LET bag == heap[scopes[scope].object].properties
        functions == {NameOf(f) : f \in FunctionDeclarations(body)}
    IN  /\ \A name \in VarNames(body) \ functions :
              /\ In(bag, name)
              /\ At(bag, name) = Prop(name, Undef, TRUE, TRUE, FALSE)
        /\ \A f \in FunctionDeclarations(body) :
              /\ In(bag, f.id)
              /\ IsObj(At(bag, f.id).v)
              /\ heap[At(bag, f.id).v.v].node = f
              /\ heap[At(bag, f.id).v.v].parentScope = scope
              /\ At(bag, f.id).w /\ At(bag, f.id).e /\ ~At(bag, f.id).c
        /\ \A name \in NestedNames(body) \ (VarNames(body) \cup functions) :
              ~In(bag, name)

\* The program is about to begin; the body of a guest function is.
ProgramBegins ==
    /\ phase = "ready" /\ host.ops = 0
    /\ stateStack = <<Root>> /\ frames[Root].node.body = code.body
BodyBegins ==
    /\ phase = "ready" /\ Len(stateStack) > 1
    /\ Top(This).node.type = "BlockStatement" /\ Top(This).n_ = 0
    /\ frames[stateStack[Len(stateStack) - 1]].node.type = "CallExpression"

\* C37: before the first statement of a program or of a function body is
\* executed, every name that a var statement of the body outside nested
\* functions declares is bound to undefined (not configurable, writable,
\* enumerable) and every declared function name is bound to a function
\* object that closes over the scope; the names declared in nested function
\* bodies only are not bound in the scope.
C37_DeclarationsHoisted ==
    /\ ProgramBegins => Hoisted(GLOBAL_SCOPE, code)
    /\ BodyBegins => Hoisted(Top(This).scope, Top(This).node)

\* The part of C37 that holds: the same, where no var statement follows a
\* function declaration of its name.
C37_DistinctDeclarationsHoisted ==
    code # FunctionThenVar => C37_DeclarationsHoisted

\* The body of g is about to begin, in a scope of its own.
C37_Witness ==
    /\ code = HoistsNames /\ BodyBegins /\ Top(This).scope # GLOBAL_SCOPE
    /\ Declarations(Top(This).node) # {}

\* The properties of the global object, which the global scope binds.
Globals == heap[GLOBAL].properties

\* Hoisting the var statements of body leaves the value of every name that
\* the global scope binds already as it is.
KeepsBound(body) ==
    \A name \in VarNames(body) \ {NameOf(f) : f \in FunctionDeclarations(body)} :
        In(Globals, name) => Get(Globals', name) = Get(Globals, name)

\* Hoisting the declarations of body leaves every binding of another name
\* as it is.
KeepsOthers(body) ==
    \A name \in Keys(Globals) \ {NameOf(d) : d \in Declarations(body)} :
        At(Globals', name) = At(Globals, name)

\* The constructor populates the global scope; appendCode does.
Populates == phase = "init" /\ phase' = "scope"
Repopulates == phase = "ready" /\ Appends /\ result'.kind = "return"

\* C38: hoisting a var declaration into a scope that binds the name already
\* leaves the value of the binding unchanged, for appendCode on the global
\* scope and for the var declarations of the initial program over the
\* globals that the host's init function has installed; only function
\* declarations bind an existing name anew.
C38_HoistingKeepsValues ==
    [][/\ Populates => KeepsBound(code)
       /\ Repopulates => \E new \in Redeclarations : KeepsBound(new)]_vars

\* The part of C38 that holds: hoisting changes no binding of a name that
\* the hoisted code does not declare.
C38_HoistingKeepsOtherNames ==
    [][/\ Populates => KeepsOthers(code)
       /\ Repopulates => \E new \in Redeclarations : KeepsOthers(new)]_vars

\* appendCode has declared y again after the program had assigned it 5.
C38_Witness ==
    /\ code = DeclaresY /\ result.op = "appendCode" /\ result.kind = "return"
    /\ \E new \in Redeclarations : frames[Root].node.body = new.body

----------------------------------------------------------------------------
(* The clauses that a switch statement tests and runs.                     *)

\* The value of a discriminant or a test of SwitchPrograms, where getVal()
\* returns hostVal: the expressions are literals and calls of getVal.
ValueOf(expression, hostVal) ==
    IF expression.type = "Literal" THEN expression.value ELSE hostVal

\* The first clause of the switch whose test is strictly equal to the
\* discriminant, or 0; the default clause, or 0.
FirstMatch(switch, hostVal) ==
    LET is == {i \in DOMAIN switch.cases :
                 /\ IsNode(switch.cases[i].test)
                 /\ ValueOf(switch.cases[i].test, hostVal) =
                        ValueOf(switch.discriminant, hostVal)}
    IN  IF is = {} THEN 0 ELSE CHOOSE i \in is : \A j \in is : i <= j
DefaultClause(switch) ==
    LET is == {i \in DOMAIN switch.cases : ~IsNode(switch.cases[i].test)}
    IN  IF is = {} THEN 0 ELSE CHOOSE i \in is : TRUE

\* The tests that are evaluated: those up to the first match.
Tested(switch, hostVal) ==
    {i \in DOMAIN switch.cases :
        /\ IsNode(switch.cases[i].test)
        /\ FirstMatch(switch, hostVal) = 0 \/ i <= FirstMatch(switch, hostVal)}

\* The statements run from clause i on, up to a break.
RECURSIVE RunFrom(_, _, _)
RunFrom(cases, i, n) ==
    IF i = 0 \/ i > Len(cases) THEN << >>
    ELSE IF n > Len(cases[i].consequent) THEN RunFrom(cases, i + 1, 1)
    ELSE IF cases[i].consequent[n].type = "BreakStatement" THEN << >>
    ELSE <<cases[i].consequent[n]>> \o RunFrom(cases, i, n + 1)

\* What setVal is given by the statements that the switch is to run.
Consequents(switch, hostVal) ==
    LET selected == IF FirstMatch(switch, hostVal) # 0 THEN FirstMatch(switch, hostVal)
                    ELSE DefaultClause(switch)
        run == RunFrom(switch.cases, selected, 1)
    IN  [i \in DOMAIN run |-> run[i].expression.arguments[1].value]

\* The calls of getVal that the switch is to make: for the discriminant and
\* for the tests that are evaluated.
Evaluations(switch, hostVal) ==
    Cardinality({i \in Tested(switch, hostVal) : switch.cases[i].test.type # "Literal"})
        + (IF switch.discriminant.type # "Literal" THEN 1 ELSE 0)

GetVals == {i \in DOMAIN host.calls : host.calls[i].fn = "getVal"}

\* C39: a switch statement evaluates its discriminant once and the tests of
\* its clauses in source order up to the first test that is strictly equal
\* to the discriminant; it takes the default clause, wherever it stands,
\* only when no test has matched, and runs the consequents of the selected
\* clause and of the clauses after it in source order up to a break or the
\* end of the switch.
C39_SwitchSelectsAndFallsThrough ==
    (Completed /\ code \in SwitchPrograms /\ host.ops = 0) =>
        LET switch == code.body[2]
            hostVal == code.body[1].expression.arguments[1].value
        IN  /\ SetVals = <<hostVal>> \o Consequents(switch, hostVal) \o <<Num(2)>>
            /\ Cardinality(GetVals) = Evaluations(switch, hostVal)

\* No test has matched and the default clause, which stands between other
\* clauses, was taken after the tests of the clauses behind it.
C39_Witness ==
    /\ Completed /\ code \in SwitchPrograms /\ host.ops = 0
    /\ SetVals = <<Num(4), Num(13), Num(14), Num(2)>>
    /\ Cardinality(GetVals) = 2

----------------------------------------------------------------------------
(* for-in loops over an object and its prototypes.                         *)

SetValK == CallStmt("setVal", <<Id("k")>>)
Sets(object, name, n) == ExprStmt(Assign("=", Member(Id(object), name), Lit(Num(n))))
\* for (var k in object) body
ForK(object, body) == ForIn(VarDecl("k", NoNode), Id(object), body)

\* box.w = 1; kid.w = 2; kid.a = 3; for (var k in kid) setVal(k);
ShadowedKeys ==
    Program(<<Sets("box", "w", 1), Sets("kid", "w", 2), Sets("kid", "a", 3),
              ForK("kid", SetValK)>>)
\* delete Error.prototype.name; Error.prototype.name = 1;
\* for (var k in typeErr) setVal(k);  for (var k in plainErr) setVal(k);
\* TypeError.prototype has a name of its own that is not enumerable.
HiddenKeys ==
    Program(<<ExprStmt(Unary("delete", Member(Member(Id("Error"), "prototype"), "name"))),
              ExprStmt(Assign("=", Member(Member(Id("Error"), "prototype"), "name"),
                              Lit(Num(1)))),
              ForK("typeErr", SetValK), ForK("plainErr", SetValK)>>)
\* box.b = 3; kid.a = 1; kid.b = 2; for (var k in kid) { setVal(k); delete kid.b; }
DeletesAhead ==
    Program(<<Sets("box", "b", 3), Sets("kid", "a", 1), Sets("kid", "b", 2),
              ForK("kid", Block(<<SetValK,
                                  ExprStmt(Unary("delete", Member(Id("kid"), "b")))>>))>>)
\* box.a = 1; kid.a = 2; for (var k in kid) { setVal(k); delete kid.a; }
DeletesVisited ==
    Program(<<Sets("box", "a", 1), Sets("kid", "a", 2),
              ForK("kid", Block(<<SetValK,
                                  ExprStmt(Unary("delete", Member(Id("kid"), "a")))>>))>>)
\* kid.a = 1; for (var k in kid) { setVal(k); kid[k + "x"] = 1; }
AddsKeys ==
    Program(<<Sets("kid", "a", 1),
              ForK("kid", Block(<<SetValK,
                                  ExprStmt(Assign("=", Index(Id("kid"),
                                                             Bin("+", Id("k"), Lit(Str("x")))),
                                                  Lit(Num(1))))>>))>>)
\* box.w = 1; kid.a = 1; for (var k in kid) { setVal(k); kid.w = 2; }
AddsShadow ==
    Program(<<Sets("box", "w", 1), Sets("kid", "a", 1),
              ForK("kid", Block(<<SetValK, Sets("kid", "w", 2)>>))>>)

ForInPrograms ==
    {ShadowedKeys, HiddenKeys, DeletesAhead, DeletesVisited, AddsKeys, AddsShadow}

NextForIn ==
    \/ InitGlobal \/ InitArray \/ InitDate \/ InitRegExp \/ InitError
    \/ CreateErrorSubclass
    \/ InitFunc \/ InitObjects \/ PopulateScope \/ RunPolyfills \/ Queue
    \/ CallStep \/ CallRun \/ StepDone
    \/ StepProgram \/ StepExpressionStatement
    \/ StepLiteral \/ StepIdentifier \/ StepCallExpression
    \/ StepAssignmentExpression \/ StepMemberExpression
    \/ StepFunctionExpression \/ StepUnaryExpression \/ StepBinaryExpression
    \/ StepBlockStatement \/ StepForInStatement

SpecForIn == Starts(ForInPrograms) /\ [][NextForIn]_vars

\* The for-in state on the stack, 0 when there is none: the loops of the
\* programs do not nest.
Loop ==
    LET ids == {stateStack[i] : i \in DOMAIN stateStack} \cap
               {f \in DOMAIN frames : frames[f].node.type = "ForInStatement"}
    IN  IF ids = {} THEN 0 ELSE CHOOSE f \in ids : TRUE

\* The value of the loop variable.
K == Get(heap[GLOBAL].properties, "k")

\* The loop has found the name of its next iteration and set the variable.
Finds == Loop # 0 /\ Loop' = Loop /\ frames'[Loop].props_ # frames[Loop].props_

\* The objects from id along the prototype links.
RECURSIVE ChainFrom(_, _)
ChainFrom(h, id) == IF id = 0 THEN << >> ELSE <<id>> \o ChainFrom(h, h[id].proto)

\* The objects of the chain of the loop's object that come before object o.
Earlier(o) ==
    LET chain == ChainFrom(heap, Get(heap[GLOBAL].properties,
                                     frames[Loop].node.right.name).v)
    IN  {chain[i] : i \in {j \in DOMAIN chain : \A l \in 1..j : chain[l] # o}}

AllKeys(bag) == KeysOf(bag, LAMBDA p : TRUE)

\* The name found is an enumerable own key that the object being
\* enumerated has now: a key deleted before it was reached is not visited.
VisitsOwnEnumerable ==
    Finds =>
        LET o == frames'[Loop].object_
        IN  /\ IsObj(o)
            /\ In(heap'[o.v].properties, K'.v)
            /\ At(heap'[o.v].properties, K'.v).e

\* The loop marks the names it visits and never visits a marked name.
VisitsOnce ==
    Finds =>
        /\ frames[Loop].isLoop => K'.v \notin frames[Loop].visited_
        /\ frames[Loop].isLoop => frames[Loop].visited_ \subseteq frames'[Loop].visited_
        /\ K'.v \in frames'[Loop].visited_

\* The keys the step has passed, each with its object: the front of the
\* snapshot of the object the loop was at, and when the loop has moved on,
\* the keys of the objects it has entered.
Passed ==
    LET f == Loop
        x0 == IF frames[f].isLoop THEN frames[f].object_ ELSE frames[f].value
        S0 == IF frames[f].isLoop /\ ~frames[f].props_.null THEN frames[f].props_.names
              ELSE AllKeys(heap[x0.v].properties)
        x1 == frames'[f].object_
        S1 == frames'[f].props_.names
        chain == ChainFrom(heap, x0.v)
        front(x, S, left) == {<<x, S[i]>> : i \in 1..(Len(S) - left)}
    IN  IF x1 = x0 THEN front(x0.v, S0, Len(S1))
        ELSE front(x0.v, S0, 0)
             \cup UNION {front(chain[i], AllKeys(heap[chain[i]].properties),
                               IF chain[i] = x1.v THEN Len(S1) ELSE 0) :
                         i \in {j \in 2..Len(chain) : \A l \in 2..(j - 1) : chain[l] # x1.v}}

\* Every key the loop passes while the key is an own key of its object,
\* enumerable or not, is marked as visited.
Remembers ==
    Finds => \A p \in Passed : In(heap[p[1]].properties, p[2]) =>
                                   p[2] \in frames'[Loop].visited_

\* The names of the properties that the statements of the loop's body
\* assign to by name.
BodyAssigns ==
    LET body == frames[Loop].node.body
        statements == IF body.type = "BlockStatement" THEN body.body ELSE <<body>>
        assigns(st) == /\ st.type = "ExpressionStatement"
                       /\ st.expression.type = "AssignmentExpression"
                       /\ ~st.expression.left.computed
    IN  {statements[i].expression.left.property.name :
            i \in {j \in DOMAIN statements : assigns(statements[j])}}

\* The name found is no own key of an object earlier in the chain.
NotShadowed ==
    Finds => \A x \in Earlier(frames'[Loop].object_.v) : ~In(heap[x].properties, K'.v)

\* The name found is no own key of an object earlier in the chain, unless
\* the body puts that key there.
NotShadowedUnlessAdded ==
    Finds => \A x \in Earlier(frames'[Loop].object_.v) :
                 In(heap[x].properties, K'.v) => K'.v \in BodyAssigns

\* The steps of the body leave the loop's object, snapshot and marks, and
\* the prototype links, as they are.
BodyKeepsLoop ==
    (Loop # 0 /\ Loop' = Loop /\ stateStack[Len(stateStack)] # Loop) =>
        /\ frames'[Loop].object_ = frames[Loop].object_
        /\ frames'[Loop].props_ = frames[Loop].props_
        /\ frames'[Loop].visited_ = frames[Loop].visited_
        /\ \A id \in DOMAIN heap : heap'[id].proto = heap[id].proto

\* Each iteration shortens the snapshot or moves down the chain.
Advances ==
    (Finds /\ frames[Loop].isLoop) =>
        \/ /\ frames'[Loop].object_ = frames[Loop].object_
           /\ Len(frames'[Loop].props_.names) < Len(frames[Loop].props_.names)
        \/ Len(ChainFrom(heap, frames'[Loop].object_.v)) <
               Len(ChainFrom(heap, frames[Loop].object_.v))

\* C40 as stated: a for-in loop visits enumerable own keys of the objects of
\* the chain, each name at most once, never a key whose name is an own key
\* (enumerable or not) of an object earlier in the chain, never a key
\* deleted before it was reached, and each iteration consumes a key of the
\* snapshot or an object of the chain whatever the body adds.
C40_NeverVisitsShadowedKey ==
    [][VisitsOwnEnumerable /\ VisitsOnce /\ NotShadowed /\ BodyKeepsLoop /\ Advances]_vars

\* C40, amended: a for-in loop visits enumerable own keys of the objects of
\* the chain, each name at most once, never a name it has passed as an own
\* key (enumerable or not) of an object earlier in the chain -- a key that
\* the body adds to an object the loop has already passed hides nothing --
\* never a key deleted before it was reached, and each iteration consumes a
\* key of the snapshot or an object of the chain whatever the body adds.
C40_NeverVisitsPassedKey ==
    [][/\ VisitsOwnEnumerable /\ VisitsOnce
       /\ Remembers /\ NotShadowedUnlessAdded
       /\ BodyKeepsLoop /\ Advances]_vars

\* The loop over kid has visited kid's keys and then box's, without the w
\* of box that kid's own w shadows.
C40_Witness ==
    /\ Completed /\ code = ShadowedKeys
    /\ SetVals = <<Str("w"), Str("a"), Str("g"), Str("v")>>

====
